---- MODULE Spec2Model ----
(***************************************************************************)
(* Faceted taxonomic / contextual query engine of the eDNA data portal     *)
(* (bpaotu/query.py), together with the part of the importer that writes   *)
(* the tables the queries read (bpaotu/importer.py).                       *)
(*                                                                         *)
(* A SQL query is modelled by the set (or sequence) of rows it returns;    *)
(* SQL conditions are evaluated in three-valued logic ("t", "f", "u") and  *)
(* a WHERE clause keeps a row only when its condition is "t".              *)
(***************************************************************************)
EXTENDS Integers, Sequences, FiniteSets, TLC

VARIABLES
    ontology,       \* ontology tables: column name -> set of [id, value] rows
    otu,            \* table otu.otu: set of taxon rows
    sample_context, \* table otu.sample_context: set of sample rows
    sample_otu,     \* table otu.sample_otu: set of abundance rows
    otu_lookup,     \* what load_edna_taxonomies returned: otu id of each file row
    loaded,         \* the loads of the importer that have run
    cache,          \* the django caches: cache name -> set of [key, value] entries
    pc,             \* "idle" between requests, "responded" when one was served,
                    \* "repeated" when the same request was served once more
    call,           \* the request being served (operation and arguments)
    result,         \* what the operation returned
    log,            \* what the request did with sessions, caches and queries
    callers         \* the threads inside a cached read: position and value held

vars == <<ontology, otu, sample_context, sample_otu, otu_lookup, loaded, cache,
          pc, call, result, log, callers>>

tables == <<ontology, otu, sample_context, sample_otu, otu_lookup, loaded>>

-----------------------------------------------------------------------------
(* Bounds *)

\* rows of the taxonomy file read by the importer
MaxTaxa == 2
\* slots of a taxonomy state vector chosen freely (the others follow the
\* drill-down shape: selected prefix, uniform tail)
MaxFree == 1

\* rows of the metadata file read by the importer
MaxSamples == 2
\* terms of a contextual filter
MaxTerms == 2

\* labels of the taxonomy file, standing for strings in their sort order
Labels == {1, 2}

-----------------------------------------------------------------------------
(* Values *)

\* SQL NULL, and python None where an integer is expected; ids and labels are >= 1
NULL == -1
\* python None where a dict (an operator-and-value filter) is expected
None == [none |-> TRUE]

Min(a, b) == IF a < b THEN a ELSE b

Range(s) == {s[i] : i \in 1..Len(s)}

\* every enumeration of the finite set S as a sequence without repetition
AllOrders(S) == {s \in [1..Cardinality(S) -> S] : Range(s) = S}

\* the rows <<id, value>> of S as ORDER BY value returns them (values are unique)
RECURSIVE order_by_value(_)
order_by_value(S) ==
    IF S = {} THEN <<>>
    ELSE LET first == CHOOSE r \in S : \A o \in S : r[2] <= o[2]
         IN <<first>> \o order_by_value(S \ {first})

-----------------------------------------------------------------------------
(* Caches, sessions and the record of a request *)

cache_names == {"search_results", "edna_sample_otu_results",
                "edna_taxonomy_options_results"}

\* cache.get(key): the value stored under the key, or None
cache_get(name, key) ==
    IF \E e \in cache[name] : e.key = key
    THEN [none |-> FALSE, value |-> (CHOOSE e \in cache[name] : e.key = key).value]
    ELSE [none |-> TRUE, value |-> <<>>]

\* `not result` on what cache.get returned: None and the empty list are falsy
falsy(got) == got.none \/ got.value = <<>>

\* the cache after cache.set(key, value)
cache_set(name, key, value) ==
    [cache EXCEPT ![name] = {e \in @ : e.key # key} \cup {[key |-> key, value |-> value]}]

\* the cache after cache.delete(key) on each of the named caches
cache_delete(names, key) ==
    [n \in cache_names |->
        IF n \in names THEN {e \in cache[n] : e.key # key[n]} ELSE cache[n]]

\* the constant hash_str of the two eDNA caches
edna_key ==
    [n \in cache_names |->
        IF n = "edna_sample_otu_results" THEN <<"eDNA_Sample_OTUs:cached">>
        ELSE IF n = "edna_taxonomy_options_results" THEN <<"eDNA_Taxonomy_Options:cached">>
        ELSE <<>>]

\* the threads that may be inside the same cached read at once
Callers == {1, 2}

\* a thread that is not inside a cached read
NoCaller == [at |-> "out", op |-> "", value |-> <<>>]

\* the events of a request: Session() and session.close(), a query executed
\* on a session, cache.get(key)
Opened(session) == [ev |-> "open", session |-> session, key |-> <<>>]
Closed(session) == [ev |-> "close", session |-> session, key |-> <<>>]
Queried(session) == [ev |-> "query", session |-> session, key |-> <<>>]
Got(name, key) == [ev |-> "get", session |-> name, key |-> key]

-----------------------------------------------------------------------------
(* TaxonomyOptions *)

hierarchy == <<"kingdom_id", "phylum_id", "class_id", "order_id",
               "family_id", "genus_id", "species_id">>

ontology_columns == Range(hierarchy) \cup {"amplicon_id"}

\* attr[:-3] on the names of the hierarchy
drop_id(attr) ==
    CASE attr = "kingdom_id" -> "kingdom"
      [] attr = "phylum_id"  -> "phylum"
      [] attr = "class_id"   -> "class"
      [] attr = "order_id"   -> "order"
      [] attr = "family_id"  -> "family"
      [] attr = "genus_id"   -> "genus"
      [] attr = "species_id" -> "species"

\* the filter with the operator ignored: always an equality
apply_op_and_val_filter_is_only(attr, q, op_and_val) ==
    IF op_and_val = None \/ op_and_val.value = NULL THEN q
    ELSE {r \in q : r[attr] # NULL /\ r[attr] = op_and_val.value}

\* q.filter(attr == value) / q.filter(attr != value): a comparison with NULL
\* is unknown, and the row is dropped
apply_op_and_val_filter(attr, q, op_and_val) ==
    IF op_and_val = None \/ op_and_val.value = NULL THEN q
    ELSE IF op_and_val.operator = "isnot"
         THEN {r \in q : r[attr] # NULL /\ r[attr] # op_and_val.value}
         ELSE {r \in q : r[attr] # NULL /\ r[attr] = op_and_val.value}

apply_otu_filter(otu_attr, q, op_and_val) ==
    apply_op_and_val_filter(otu_attr, q, op_and_val)

apply_amplicon_filter(q, op_and_val) ==
    apply_otu_filter("amplicon_id", q, op_and_val)

\* zip(TaxonomyOptions.hierarchy, state) stops at the shorter of the two
ZipLen(state) == Min(Len(hierarchy), Len(state))

\* the loop of determine_target from index idx (0-based) on, q being the
\* query built so far; NULL stands for the (None, None, None) return
RECURSIVE determine_target_from(_, _, _)
determine_target_from(q, state, idx) ==
    IF idx >= ZipLen(state) THEN NULL
    ELSE LET taxonomy == state[idx + 1]
         IN IF taxonomy = None \/ taxonomy.value = NULL THEN idx
            ELSE LET q2 == apply_otu_filter(hierarchy[idx + 1], q, taxonomy)
                     \* q.count() of SELECT kingdom_id ... GROUP BY kingdom_id
                     count == Cardinality({r.kingdom_id : r \in q2})
                 IN IF count > 0 THEN determine_target_from(q2, state, idx + 1)
                    ELSE idx

\* determine_target without the amplicon filter on the validating query
determine_target_no_amplicon(amplicon, state) ==
    determine_target_from(otu, state, 0)

determine_target(amplicon, state) ==
    determine_target_from(apply_amplicon_filter(otu, amplicon), state, 0)

\* the clear list without the target itself
clear_list_below_target(target_idx) ==
    LET from == IF target_idx = NULL THEN 0 ELSE target_idx + 1
    IN [i \in 1..(Len(hierarchy) - from) |-> drop_id(hierarchy[from + i])]

\* [drop_id(attr) for attr, _ in hierarchy[target_idx:]]; hierarchy[None:] is
\* the whole list
clear_list(target_idx) ==
    LET from == IF target_idx = NULL THEN 0 ELSE target_idx
    IN [i \in 1..(Len(hierarchy) - from) |-> drop_id(hierarchy[from + i])]

\* the state left as the caller passed it
reset_state_skipped(state, target_idx) == state

\* only the slot of the target cleared, the deeper slots kept
reset_state_target_only(state, target_idx) ==
    [i \in 1..Len(state) |-> IF i = target_idx + 1 THEN None ELSE state[i]]

\* state[:target_idx] + [None] * (len(hierarchy) - target_idx)
reset_state(state, target_idx) ==
    [i \in 1..(Min(Len(state), target_idx) + Len(hierarchy) - target_idx) |->
        IF i <= Min(Len(state), target_idx) THEN state[i] ELSE None]

RECURSIVE apply_hierarchy_filters(_, _, _)
apply_hierarchy_filters(q, state, idx) ==
    IF idx >= ZipLen(state) THEN q
    ELSE apply_hierarchy_filters(
             apply_otu_filter(hierarchy[idx + 1], q, state[idx + 1]), state, idx + 1)

\* target_query without apply_amplicon_filter
target_query_no_amplicon(amplicon, state, target_idx) ==
    LET target_attr == hierarchy[target_idx + 1]
        cleared == reset_state(state, target_idx)
        q == apply_hierarchy_filters(otu, cleared, 0)
    IN order_by_value({<<r[target_attr], o.value>> :
                          <<r, o>> \in {p \in q \X ontology[target_attr] :
                                           p[1][target_attr] = p[2].id}})

\* SELECT otu.<target>, t.value FROM otu JOIN t ON otu.<target> = t.id
\* WHERE ... GROUP BY otu.<target>, t.value ORDER BY t.value
target_query(amplicon, state, target_idx) ==
    LET target_attr == hierarchy[target_idx + 1]
        cleared == reset_state(state, target_idx)
        q == apply_hierarchy_filters(apply_amplicon_filter(otu, amplicon), cleared, 0)
    IN order_by_value({<<r[target_attr], o.value>> :
                          <<r, o>> \in {p \in q \X ontology[target_attr] :
                                           p[1][target_attr] = p[2].id}})

\* the results SELECT id, value FROM ontology_otukingdom may produce: the
\* statement has no ORDER BY, the order of its rows is unspecified
kingdom_table_query == AllOrders({<<o.id, o.value>> : o \in ontology["kingdom_id"]})

\* a return value: {} ("empty"), the options dict ("options"), a list of rows
\* ("rows"), or the exception raised ("error")
Result(kind, target, options, clear, rows, exc) ==
    [kind |-> kind, target |-> target, possibilities |-> options, clear |-> clear,
     rows |-> rows, exc |-> exc]

NoResult == Result("none", "", <<>>, <<>>, <<>>, "")

NoCall == [op |-> "none"]

\* the values _possibilities(amplicon, state) may return
possibilities_results(amplicon, state) ==
    LET target_idx == determine_target(amplicon, state)
        clear == clear_list(target_idx)
    IN IF target_idx = NULL
       THEN {Result("empty", "", <<>>, <<>>, <<>>, "")}
       ELSE IF amplicon = None /\ hierarchy[target_idx + 1] = "kingdom_id"
       THEN {Result("options", drop_id(hierarchy[target_idx + 1]), p, clear, <<>>, "") :
               p \in kingdom_table_query}
       ELSE {Result("options", drop_id(hierarchy[target_idx + 1]),
                    target_query(amplicon, state, target_idx), clear, <<>>, "")}


-----------------------------------------------------------------------------
(* ContextualFilter and its terms *)

\* SQL conditions evaluated on a row: "t", "f", or "u" (unknown, from NULL)
not_(c) == IF c = "t" THEN "f" ELSE IF c = "f" THEN "t" ELSE "u"

and_(cs) ==
    IF \E i \in 1..Len(cs) : cs[i] = "f" THEN "f"
    ELSE IF \E i \in 1..Len(cs) : cs[i] = "u" THEN "u" ELSE "t"

or_(cs) ==
    IF \E i \in 1..Len(cs) : cs[i] = "t" THEN "t"
    ELSE IF \E i \in 1..Len(cs) : cs[i] = "u" THEN "u" ELSE "f"

\* column BETWEEN a AND b
between(v, a, b) ==
    IF v = NULL THEN "u" ELSE IF a <= v /\ v <= b THEN "t" ELSE "f"

\* column LIKE '%' || s || '%' on a text column (texts are sequences of
\* characters, none of them a LIKE wildcard); the text columns are never NULL
contains(v, s) ==
    IF \E i \in 1..(Len(v) - Len(s) + 1) : SubSeq(v, i, i + Len(s) - 1) = s
    THEN "t" ELSE "f"

\* column = a
equals(v, a) == IF v = NULL THEN "u" ELSE IF v = a THEN "t" ELSE "f"

\* column IN (ids)
in_(v, ids) ==
    IF v = NULL THEN "u" ELSE IF \E i \in 1..Len(ids) : ids[i] = v THEN "t" ELSE "f"

\* get_conditions of the four term classes, evaluated on row r
get_conditions(term, r) ==
    CASE term.kind = "float"     -> <<between(r[term.field_name], term.val_from, term.val_to)>>
      [] term.kind = "string"    -> <<contains(r[term.field_name], term.val_contains)>>
      [] term.kind = "ontology"  -> <<equals(r[term.field_name], term.val_is)>>
      [] term.kind = "sample_id" -> <<in_(r[term.field_name], term.val_is_in)>>

\* conditions with the negative operators not recognised
conditions_never_negated(term, r) == get_conditions(term, r)

\* ContextualFilterTerm.conditions
conditions(term, r) ==
    IF term.operator \in {"isnot", "notbetween", "containsnot"}
    THEN [i \in 1..Len(get_conditions(term, r)) |-> not_(get_conditions(term, r)[i])]
    ELSE get_conditions(term, r)

\* chain(*(t.conditions for t in self.terms))
RECURSIVE chain_conditions(_, _)
chain_conditions(terms, r) ==
    IF terms = <<>> THEN <<>>
    ELSE conditions(Head(terms), r) \o chain_conditions(Tail(terms), r)

\* ContextualFilter.mode_operators
mode_func(mode, cs) == IF mode = "or" THEN or_(cs) ELSE and_(cs)

apply_environment_filter(q, op_and_val) ==
    apply_op_and_val_filter("x", q, op_and_val)

\* apply with the environment filter passed to the mode operator as one more
\* clause
apply_environment_in_mode(q, cf) ==
    {r \in q :
        LET env == IF apply_environment_filter({r}, cf.environment_filter) = {}
                   THEN "f" ELSE "t"
            cs == <<env>> \o chain_conditions(cf.terms, r)
        IN mode_func(cf.mode, cs) = "t"}

\* apply with or_() of no clauses taken as false
apply_empty_or_false(q, cf) ==
    {r \in apply_environment_filter(q, cf.environment_filter) :
        mode_func(cf.mode, chain_conditions(cf.terms, r)) = "t"}

\* ContextualFilter.apply: and_() / or_() of no clauses is an empty clause
\* list, for which filter() adds nothing to the WHERE clause
apply(q, cf) ==
    {r \in apply_environment_filter(q, cf.environment_filter) :
        LET cs == chain_conditions(cf.terms, r)
        IN cs = <<>> \/ mode_func(cf.mode, cs) = "t"}

-----------------------------------------------------------------------------
(* SampleQuery *)

\* _apply_taxonomy_filters on a query over otu rows
apply_taxonomy_filters(q, params) ==
    apply_hierarchy_filters(apply_amplicon_filter(q, params.amplicon_filter),
                            params.taxonomy_filter, 0)

\* SELECT DISTINCT sample_otu.sample_id FROM sample_otu JOIN otu ... WHERE ...
taxonomy_subquery(params) ==
    {e.sample_id : e \in {a \in sample_otu :
        \E o \in apply_taxonomy_filters(otu, params) : o.id = a.otu_id}}

\* _build_taxonomy_subquery: None (no subquery) when there is no amplicon
\* filter and the kingdom slot is None
build_taxonomy_subquery(params) ==
    IF params.amplicon_filter = None /\ params.taxonomy_filter[1] = None
    THEN [none |-> TRUE, ids |-> {}]
    ELSE [none |-> FALSE, ids |-> taxonomy_subquery(params)]

\* _apply_filters
apply_filters(sample_query, subq, params) ==
    LET q == IF subq.none THEN sample_query
             ELSE {r \in sample_query : r.id \in subq.ids}
    IN apply(q, params.contextual_filter)

\* repr of a term: the class of the term, then its field name, operator and
\* operands
term_repr(t) ==
    CASE t.kind = "float"     -> <<"TermFloat", t.field_name, t.operator, t.val_from, t.val_to>>
      [] t.kind = "string"    -> <<"TermString", t.field_name, t.operator, t.val_contains>>
      [] t.kind = "ontology"  -> <<"TermOntology", t.field_name, t.operator, t.val_is>>
      [] t.kind = "sample_id" -> <<"TermSampleID", t.field_name, t.operator, t.val_is_in>>

\* ContextualFilter.__repr__: the mode, the environment filter, and the reprs
\* of the terms joined in the order of self.terms
contextual_repr(cf) ==
    <<"ContextualFilter", cf.mode, cf.environment_filter,
      [i \in 1..Len(cf.terms) |-> term_repr(cf.terms[i])]>>

\* hash_str of _q_all_cached: the topic and the reprs of the three filters (an
\* OrderedDict or a list spells out its content); the cache key is its
\* sha256 digest, which identifies the string
hash_str(topic, params) ==
    <<"SampleQuery:cached", topic, params.amplicon_filter, params.taxonomy_filter,
      contextual_repr(params.contextual_filter)>>

\* _q_all_cached: what it returns, q.all() being `all`; cache.set is commented
\* out, nothing is stored
q_all_cached(topic, params, all) ==
    LET got == cache_get("search_results", hash_str(topic, params))
    IN IF falsy(got) THEN all ELSE got.value

\* _q_all_cached: the cache is read, and the query is executed on a miss
q_all_cached_log(topic, params) ==
    LET got == cache_get("search_results", hash_str(topic, params))
    IN <<Got("search_results", hash_str(topic, params))>>
       \o (IF falsy(got) THEN <<Queried("SampleQuery")>> ELSE <<>>)

\* FROM otu, sample_otu, sample_context WHERE otu.id = sample_otu.otu_id AND
\* sample_context.id = sample_otu.sample_id
joined_sample_otus ==
    {t \in otu \X sample_otu \X sample_context :
        t[1].id = t[2].otu_id /\ t[3].id = t[2].sample_id}

\* matching_sample_otus with the kingdom_id argument ignored
matching_sample_otus_any_kingdom(params, kingdom_id) ==
    {t \in joined_sample_otus :
        /\ apply_taxonomy_filters({t[1]}, params) # {}
        /\ apply({t[3]}, params.contextual_filter) # {}}

\* the rows of the query that matching_sample_otus returns (kingdom_id is
\* NULL for None): the joined rows that the taxonomy filters, the contextual
\* filter and the kingdom keep; the query has no ORDER BY
matching_sample_otus_rows(params, kingdom_id) ==
    {t \in joined_sample_otus :
        /\ apply_taxonomy_filters({t[1]}, params) # {}
        /\ apply({t[3]}, params.contextual_filter) # {}
        /\ (kingdom_id # NULL => t[1].kingdom_id = kingdom_id)}

\* has_matching_sample_otus answering for every kingdom at once
has_matching_sample_otus_of_any_kingdom(params, kingdom_id) ==
    LET topic == <<"has_matching_sample_otus", kingdom_id>>
        all == <<<<matching_sample_otus_rows(params, NULL) # {}>>>>
        got == cache_get("search_results", hash_str(topic, params))
    IN IF falsy(got) THEN all[1][1] ELSE got.value

\* has_matching_sample_otus: SELECT EXISTS (the query of
\* matching_sample_otus) gives one row of one column, to_boolean takes
\* result[0][0]; a value found in the cache is returned as it is
has_matching_sample_otus_value(params, kingdom_id) ==
    LET topic == <<"has_matching_sample_otus", kingdom_id>>
        all == <<<<matching_sample_otus_rows(params, kingdom_id) # {}>>>>
        got == cache_get("search_results", hash_str(topic, params))
    IN IF falsy(got) THEN all[1][1] ELSE got.value

\* `v is True`
is_True(v) == IF v.type = "bool" THEN v.bool ELSE FALSE

\* the rows of sample_otu that _query_sample_otus keeps: with use_union True
\* those of a listed otu or of a listed sample; otherwise a filter on the
\* otus when otu_ids is not empty and a filter on the samples when
\* sample_contextual_ids is not empty
query_sample_otus_kept(otu_ids, sample_contextual_ids, use_union) ==
    IF is_True(use_union)
    THEN {r \in sample_otu :
             or_(<<in_(r.otu_id, otu_ids.items),
                   in_(r.sample_id, sample_contextual_ids.items)>>) = "t"}
    ELSE {r \in sample_otu :
             /\ Len(otu_ids.items) > 0 => in_(r.otu_id, otu_ids.items) = "t"
             /\ Len(sample_contextual_ids.items) > 0
                    => in_(r.sample_id, sample_contextual_ids.items) = "t"}

\* the lists _query_sample_otus may return: (otu_id, sample_id,
\* proportional_abundance) of the kept rows ORDER BY otu_id, rows of one otu
\* in any order
query_sample_otus_rows(otu_ids, sample_contextual_ids, use_union) ==
    LET kept == {<<r.otu_id, r.sample_id, r.proportional_abundance>> :
                    r \in query_sample_otus_kept(otu_ids, sample_contextual_ids,
                                                 use_union)}
    IN {s \in AllOrders(kept) : \A i, j \in 1..Len(s) : i < j => s[i][1] <= s[j][1]}

\* what _query_sample_otus raises: len() of None without use_union, in_() of
\* None with it
query_sample_otus_raises(otu_ids, sample_contextual_ids, use_union) ==
    otu_ids.type = "NoneType" \/ sample_contextual_ids.type = "NoneType"

\* the rows of S as ORDER BY id returns them (id is the primary key)
RECURSIVE order_by_id(_)
order_by_id(S) ==
    IF S = {} THEN <<>>
    ELSE LET first == CHOOSE r \in S : \A o \in S : r.id <= o.id
         IN <<first>> \o order_by_id(S \ {first})

-----------------------------------------------------------------------------
(* EdnaOTUQuery and EdnaSampleOTUQuery *)

\* the rank ids of an otu row, in the order of the ORDER BY columns
rank_ids(o) == [i \in 1..Len(hierarchy) |-> o[hierarchy[i]]]

\* a sorts before b, or equals it, on the ORDER BY columns
ordered_before(a, b) ==
    \/ a = b
    \/ \E i \in 1..Len(a) : a[i] < b[i] /\ \A j \in 1..(i - 1) : a[j] = b[j]

\* the results the ordered_otus query may produce: ORDER BY the seven rank
\* columns leaves the order of rows that agree on them unspecified
ordered_otus ==
    {s \in AllOrders(otu) :
        \A i, j \in 1..Len(s) : i < j => ordered_before(rank_ids(s[i]), rank_ids(s[j]))}

\* otu_ontology_lookups[index][pk]
ontology_text(attr, pk) == (CHOOSE e \in ontology[attr] : e.id = pk).value

\* the option of the first n ranks of otu row o: its text (the labels, each
\* with the prefix of its rank, joined by ';'), the ids, and the pk of the row
option(o, n) ==
    [text |-> [j \in 1..n |-> ontology_text(hierarchy[j], o[hierarchy[j]])],
     ids |-> [j \in 1..n |-> o[hierarchy[j]]],
     pk |-> o.id]

\* the loop over ordered_otus: an option is added for each prefix of the row
\* whose text is not yet a key of options (no label is empty)
RECURSIVE option_list(_, _)
option_list(options, rows) ==
    IF rows = <<>> THEN options
    ELSE option_list(
             options \o SelectSeq([n \in 1..Len(hierarchy) |-> option(Head(rows), n)],
                                  LAMBDA e : \A i \in 1..Len(options) :
                                                 options[i].text # e.text),
             Tail(rows))

\* the values _query_taxonomy_options may return
query_taxonomy_options == {option_list(<<>>, rows) : rows \in ordered_otus}

\* the cached reads, and the cache of each
cached_reads == {"get_taxonomy_options", "query_sample_otus"}

cache_of(op) ==
    IF op = "get_taxonomy_options" THEN "edna_taxonomy_options_results"
    ELSE "edna_sample_otu_results"

\* a thread enters get_taxonomy_options(filters) or query_sample_otus() and
\* runs cache.get(key): it goes on with the cached value unless that is falsy
read_cache(c, op) ==
    LET got == cache_get(cache_of(op), edna_key[cache_of(op)])
    IN /\ callers[c].at = "out"
       /\ callers' = [callers EXCEPT ![c] =
              IF falsy(got) THEN [at |-> "compute", op |-> op, value |-> <<>>]
              ELSE [at |-> "done", op |-> op, value |-> got.value]]
       /\ UNCHANGED <<tables, cache, pc, call, result, log>>

\* the thread computes the value: _query_taxonomy_options(), or
\* _query_sample_otus() with no arguments, which raises TypeError at
\* len(otu_ids), otu_ids being None
compute(c) ==
    /\ callers[c].at = "compute"
    /\ IF callers[c].op = "query_sample_otus"
       THEN callers' = [callers EXCEPT ![c].at = "raised"]
       ELSE \E v \in query_taxonomy_options :
               callers' = [callers EXCEPT ![c].at = "set", ![c].value = v]
    /\ UNCHANGED <<tables, cache, pc, call, result, log>>

\* cache.set(key, result)
write_cache(c) ==
    /\ callers[c].at = "set"
    /\ cache' = cache_set(cache_of(callers[c].op), edna_key[cache_of(callers[c].op)],
                          callers[c].value)
    /\ callers' = [callers EXCEPT ![c].at = "done"]
    /\ UNCHANGED <<tables, pc, call, result, log>>

\* the thread has returned or raised, and is free for another read
leave(c) ==
    /\ callers[c].at \in {"done", "raised"}
    /\ callers' = [callers EXCEPT ![c] = NoCaller]
    /\ UNCHANGED <<tables, cache, pc, call, result, log>>

-----------------------------------------------------------------------------
(* views: the JSON of a request and its conversion to filters *)

\* JSON values: null, a string (a sequence of characters), a number, a list
JNull == [t |-> "null"]
JStr(s) == [t |-> "str", s |-> s]
JNum(n) == [t |-> "num", n |-> n]
JList(l) == [t |-> "list", l |-> l]
\* filter_spec[k] for a key k that the object lacks
JMissing == [t |-> "missing"]
\* the object {"operator": op, "value": v} of a taxonomy or amplicon slot
JSlot(op, v) == [t |-> "slot", operator |-> op, value |-> v]

Digits == <<"0", "1", "2", "3", "4", "5", "6", "7", "8", "9">>

IsDigit(ch) == \E d \in 1..Len(Digits) : Digits[d] = ch

DigitValue(ch) == (CHOOSE d \in 1..Len(Digits) : Digits[d] = ch) - 1

\* the number that a string of digits spells
RECURSIVE digits_value(_)
digits_value(s) ==
    IF s = <<>> THEN 0
    ELSE Len(Digits) * digits_value(SubSeq(s, 1, Len(s) - 1)) + DigitValue(s[Len(s)])

\* the string of digits that spells a number >= 0
RECURSIVE digits_of(_)
digits_of(n) ==
    IF n < Len(Digits) THEN <<Digits[n + 1]>>
    ELSE digits_of(n \div Len(Digits)) \o <<Digits[(n % Len(Digits)) + 1]>>

\* what a conversion gives: a value, or the exception it raises
Value(v) == [raised |-> FALSE, v |-> v, exc |-> ""]
Raised(exc) == [raised |-> TRUE, v |-> NULL, exc |-> exc]

\* int(v) and float(v): the number, the number a string of digits spells,
\* ValueError for any other string, TypeError for null and lists
int(v) ==
    CASE v.t = "num" -> Value(v.n)
      [] v.t = "str" -> IF v.s # <<>> /\ \A i \in 1..Len(v.s) : IsDigit(v.s[i])
                        THEN Value(digits_value(v.s)) ELSE Raised("ValueError")
      [] v.t = "missing" -> Raised("KeyError")
      [] OTHER -> Raised("TypeError")

\* str(v) of a number or a string
str(v) == IF v.t = "num" THEN digits_of(v.n) ELSE v.s

\* int_if_not_already_none: None for None and '', int(str(v)) otherwise
int_if_not_already_none(v) ==
    IF v.t = "null" \/ (v.t = "str" /\ v.s = <<>>) THEN Value(NULL)
    ELSE int(JStr(str(v)))

\* get_operator_and_int_value: None for null, '' and an object whose value is
\* '', the operator and the int of the value otherwise
get_operator_and_int_value(v) ==
    IF v.t = "null" \/ (v.t = "str" /\ v.s = <<>>) THEN Value(None)
    ELSE IF v.value.t = "str" /\ v.value.s = <<>> THEN Value(None)
    ELSE IF int_if_not_already_none(v.value).raised
         THEN int_if_not_already_none(v.value)
         ELSE Value([operator |-> v.operator, value |-> int_if_not_already_none(v.value).v])

clean_amplicon_filter(v) == get_operator_and_int_value(v)

\* clean_taxonomy_filter: the assertion on the length, then the slots mapped
clean_taxonomy_filter(state_vector) ==
    IF Len(state_vector) # Len(hierarchy) THEN Raised("AssertionError")
    ELSE IF \E i \in 1..Len(state_vector) : get_operator_and_int_value(state_vector[i]).raised
         THEN Raised("ValueError")
         ELSE Value([i \in 1..Len(state_vector) |->
                       get_operator_and_int_value(state_vector[i]).v])

\* Python values with their types: type(v) is v.type
PyNone == [type |-> "NoneType"]
PyFloat(n) == [type |-> "float", float |-> n]
PyInt(n) == [type |-> "int", int |-> n]
PyBool(b) == [type |-> "bool", bool |-> b]
PyStr(s) == [type |-> "str", str |-> s]
PyDate(d) == [type |-> "date", date |-> d]
PyList(l) == [type |-> "list", items |-> l]

\* ContextualFilterTermFloat.__init__: the two assertions, then the term
ContextualFilterTermFloat(field_name, operator, val_from, val_to) ==
    IF val_from.type # "float" \/ val_to.type # "float" THEN Raised("AssertionError")
    ELSE Value([kind |-> "float", field_name |-> field_name, operator |-> operator,
                val_from |-> val_from, val_to |-> val_to])

\* ContextualFilterTermDate.__init__
ContextualFilterTermDate(field_name, operator, val_from, val_to) ==
    IF val_from.type # "date" \/ val_to.type # "date" THEN Raised("AssertionError")
    ELSE Value([kind |-> "date", field_name |-> field_name, operator |-> operator,
                val_from |-> val_from, val_to |-> val_to])

\* ContextualFilterTermString.__init__ with no assertion
ContextualFilterTermString_unchecked(field_name, operator, val_contains) ==
    Value([kind |-> "string", field_name |-> field_name, operator |-> operator,
           val_contains |-> val_contains])

\* ContextualFilterTermString.__init__
ContextualFilterTermString(field_name, operator, val_contains) ==
    IF val_contains.type # "str" THEN Raised("AssertionError")
    ELSE Value([kind |-> "string", field_name |-> field_name, operator |-> operator,
                val_contains |-> val_contains])

\* ContextualFilterTermOntology.__init__
ContextualFilterTermOntology(field_name, operator, val_is) ==
    IF val_is.type # "int" THEN Raised("AssertionError")
    ELSE Value([kind |-> "ontology", field_name |-> field_name, operator |-> operator,
                val_is |-> val_is])

\* ContextualFilterTermSampleID.__init__: the assertion on the list, then
\* one on each item
ContextualFilterTermSampleID(field_name, operator, val_is_in) ==
    IF val_is_in.type # "list" THEN Raised("AssertionError")
    ELSE IF \E i \in 1..Len(val_is_in.items) : val_is_in.items[i].type # "int"
         THEN Raised("AssertionError")
         ELSE Value([kind |-> "sample_id", field_name |-> field_name,
                     operator |-> operator, val_is_in |-> val_is_in])

\* the constructor of class cls called on the operands
construct(cls, operands) ==
    CASE cls = "ContextualFilterTermFloat" ->
             ContextualFilterTermFloat("elevation", "between", operands[1], operands[2])
      [] cls = "ContextualFilterTermDate" ->
             ContextualFilterTermDate("elevation", "between", operands[1], operands[2])
      [] cls = "ContextualFilterTermString" ->
             ContextualFilterTermString("soil_type", "contains", operands[1])
      [] cls = "ContextualFilterTermOntology" ->
             ContextualFilterTermOntology("sample_type_id", "is", operands[1])
      [] cls = "ContextualFilterTermSampleID" ->
             ContextualFilterTermSampleID("id", "is", operands[1])

\* SampleContext.__table__.columns: the columns of the model's sample_context
\* and the class of term that param_to_filters builds for each
column_kind(field_name) ==
    CASE field_name = "id" -> "sample_id"
      [] field_name = "sample_type_id" -> "ontology"
      [] field_name \in {"x", "elevation"} -> "float"
      [] field_name = "soil_type" -> "string"
      [] OTHER -> "none"

\* parse_float: float(s), and None (here NULL) when it raises ValueError
parse_float(v) ==
    IF int(v).raised /\ int(v).exc = "ValueError" THEN Value(NULL) ELSE int(v)

\* [int(t) for t in v]: over the items of a list, and over the characters of
\* a string
ints(v) ==
    CASE v.t = "list" -> Value([i \in 1..Len(v.l) |-> int(v.l[i])])
      [] v.t = "str" -> Value([i \in 1..Len(v.s) |-> int(JStr(<<v.s[i]>>))])
      [] v.t = "missing" -> Raised("KeyError")
      [] OTHER -> Raised("TypeError")

\* the term that the try block builds for a filter_spec on a known column,
\* or the exception raised by a conversion or by an assertion of the term's
\* constructor
term_of(filter_spec) ==
    LET field_name == filter_spec.field
        operator == filter_spec.operator
    IN CASE column_kind(field_name) = "sample_id" ->
              IF ints(filter_spec.is).raised THEN ints(filter_spec.is)
              ELSE IF \E i \in 1..Len(ints(filter_spec.is).v) : ints(filter_spec.is).v[i].raised
                   THEN Raised("ValueError")
                   ELSE Value([kind |-> "sample_id", field_name |-> field_name,
                               operator |-> operator,
                               val_is_in |-> [i \in 1..Len(ints(filter_spec.is).v) |->
                                                 ints(filter_spec.is).v[i].v]])
         [] column_kind(field_name) = "ontology" ->
              IF int(filter_spec.is).raised THEN int(filter_spec.is)
              ELSE Value([kind |-> "ontology", field_name |-> field_name,
                          operator |-> operator, val_is |-> int(filter_spec.is).v])
         [] column_kind(field_name) = "float" ->
              IF parse_float(filter_spec.from).raised THEN parse_float(filter_spec.from)
              ELSE IF parse_float(filter_spec.to).raised THEN parse_float(filter_spec.to)
              ELSE IF parse_float(filter_spec.from).v = NULL \/ parse_float(filter_spec.to).v = NULL
                   THEN Raised("AssertionError")
                   ELSE Value([kind |-> "float", field_name |-> field_name,
                               operator |-> operator,
                               val_from |-> parse_float(filter_spec.from).v,
                               val_to |-> parse_float(filter_spec.to).v])
         [] column_kind(field_name) = "string" ->
              IF filter_spec.contains.t = "missing" THEN Raised("KeyError")
              ELSE Value([kind |-> "string", field_name |-> field_name,
                          operator |-> operator, val_contains |-> str(filter_spec.contains)])

\* the two messages of param_to_filters
PleaseSelect == [msg |-> "Please select a contextual data field to filter upon.",
                 field |-> ""]
InvalidValue(field_name) == [msg |-> "Invalid value provided for contextual field",
                             field |-> field_name]

\* the loop of param_to_filters over context_spec['filters']: the terms added
\* and the errors appended, in the order of the entries
RECURSIVE add_terms(_, _, _)
add_terms(filters, terms, errors) ==
    IF filters = <<>> THEN [terms |-> terms, errors |-> errors]
    ELSE LET filter_spec == Head(filters)
         IN IF column_kind(filter_spec.field) = "none"
            THEN add_terms(Tail(filters), terms, Append(errors, PleaseSelect))
            ELSE IF term_of(filter_spec).raised
                 THEN add_terms(Tail(filters), terms,
                                Append(errors, InvalidValue(filter_spec.field)))
                 ELSE add_terms(Tail(filters), Append(terms, term_of(filter_spec).v), errors)

\* the environment of the contextual filter, passed on as the JSON gave it
environment_of(v) ==
    IF v.t = "null" THEN None ELSE [operator |-> v.operator, value |-> v.value.n]

\* param_to_filters: the exception of clean_taxonomy_filter or
\* clean_amplicon_filter, or (OTUQueryParams, errors)
param_to_filters(otu_query) ==
    LET taxonomy_filter == clean_taxonomy_filter(otu_query.taxonomy_filters)
        amplicon_filter == clean_amplicon_filter(otu_query.amplicon_filter)
        context_spec == otu_query.contextual_filters
        added == add_terms(context_spec.filters, <<>>, <<>>)
    IN IF taxonomy_filter.raised THEN taxonomy_filter
       ELSE IF amplicon_filter.raised THEN amplicon_filter
       ELSE Value([params |-> [amplicon_filter |-> amplicon_filter.v,
                               taxonomy_filter |-> taxonomy_filter.v,
                               contextual_filter |->
                                   [mode |-> context_spec.mode,
                                    environment_filter |->
                                        environment_of(context_spec.environment),
                                    terms |-> added.terms]],
                   errors |-> added.errors])

-----------------------------------------------------------------------------
(* Inputs of the requests *)

\* what get_operator_and_int_value yields for one JSON value
SlotOptions ==
    {None} \cup [operator : {"is"}, value : Labels \cup {NULL}]
           \cup [operator : {"isnot"}, value : {1}]

Is1 == [operator |-> "is", value |-> 1]

\* taxonomy vectors of the hierarchy's length: h selected slots, then MaxFree
\* arbitrary slots, then a uniform tail
TaxonomyStates ==
    UNION {{[k \in 1..Len(hierarchy) |->
                IF k <= h THEN Is1
                ELSE IF k <= h + MaxFree THEN w[k - h] ELSE tail] :
              w \in [1..MaxFree -> SlotOptions], tail \in {None, Is1}} :
           h \in 0..Len(hierarchy)}

AmpliconOptions ==
    {None} \cup [operator : {"is"}, value : {1, NULL}]
           \cup [operator : {"isnot"}, value : {1}]

NoSlots == [k \in 1..Len(hierarchy) |-> None]

\* texts: sequences of characters
TextA == <<"a">>
TextAB == <<"a", "b">>
TextB == <<"b">>

\* the terms param_to_filters builds for a float, a text, an ontology and the
\* id column
Terms ==
    [kind : {"float"}, field_name : {"elevation"}, operator : {"between", "notbetween"},
     val_from : {100}, val_to : {500}]
    \cup [kind : {"string"}, field_name : {"soil_type"},
          operator : {"contains", "containsnot"}, val_contains : {TextA}]
    \cup [kind : {"ontology"}, field_name : {"sample_type_id"},
          operator : {"isnot"}, val_is : {1}]
    \cup [kind : {"sample_id"}, field_name : {"id"}, operator : {"is"},
          val_is_in : {<<0>>}]

TermLists == UNION {[1..n -> Terms] : n \in 0..MaxTerms}

\* ContextualFilter(mode, environment) with its terms added
ContextualFilters ==
    [mode : {"and", "or"}, environment_filter : AmpliconOptions, terms : TermLists]

\* OTUQueryParams with no amplicon and no taxonomy selection
ContextualParams ==
    [amplicon_filter : {None}, taxonomy_filter : {NoSlots},
     contextual_filter : ContextualFilters]

\* OTUQueryParams that select by amplicon and taxonomy
TaxonomyParams ==
    [amplicon_filter : {None, Is1},
     taxonomy_filter : {[k \in 1..Len(hierarchy) |->
                            IF k = 1 THEN a ELSE IF k = 2 THEN b ELSE None] :
                          a \in {None, Is1, [operator |-> "is", value |-> NULL]},
                          b \in {None, Is1}},
     contextual_filter : [mode : {"and"}, environment_filter : {None},
                          terms : {<<>>, <<[kind |-> "float", field_name |-> "elevation",
                                            operator |-> "between",
                                            val_from |-> 100, val_to |-> 500]>>}]]

\* operands handed to the constructors of the terms
PyValues ==
    {PyNone, PyFloat(100), PyInt(1), PyBool(TRUE), PyStr(TextA), PyDate(1),
     PyList(<<PyInt(0)>>), PyList(<<PyInt(0), PyStr(TextA)>>)}

\* the term classes with the operand lists of their constructors
TermCalls ==
    [cls : {"ContextualFilterTermFloat", "ContextualFilterTermDate"},
     operands : {<<a, b>> : a \in {PyNone, PyFloat(100), PyInt(1), PyDate(1)},
                            b \in {PyFloat(100), PyStr(TextA), PyDate(1)}}]
    \cup [cls : {"ContextualFilterTermString", "ContextualFilterTermOntology",
                 "ContextualFilterTermSampleID"},
          operands : {<<a>> : a \in PyValues}]

\* the JSON of a slot: null, and {"operator": "is", "value": 1}
RawIs1 == JSlot("is", JNum(1))

\* taxonomy_filters of a request: no selection, a kingdom selected, a phylum
\* selected under no kingdom, and a vector one slot short
RawVectors ==
    {[k \in 1..Len(hierarchy) |-> JNull],
     [k \in 1..Len(hierarchy) |-> IF k = 1 THEN RawIs1 ELSE JNull],
     [k \in 1..Len(hierarchy) |-> IF k = 2 THEN RawIs1 ELSE JNull],
     [k \in 1..(Len(hierarchy) - 1) |-> JNull]}

\* an entry of contextual_filters.filters; a key that the entry lacks reads
\* as JMissing
FilterSpec(field, operator, val_is, val_from, val_to, val_contains) ==
    [field |-> field, operator |-> operator, is |-> val_is, from |-> val_from,
     to |-> val_to, contains |-> val_contains]

\* entries on a float, a text, an ontology and the id column with operands of
\* the column's kind, entries with operands of another kind, and an entry on
\* a field that sample_context lacks
FilterSpecs ==
    {FilterSpec("elevation", "between", JMissing, JStr(<<"1", "0", "0">>),
                JStr(<<"5", "0", "0">>), JMissing),
     FilterSpec("elevation", "between", JMissing, JStr(<<"a">>),
                JStr(<<"5", "0", "0">>), JMissing),
     FilterSpec("soil_type", "contains", JMissing, JMissing, JMissing, JStr(TextA)),
     FilterSpec("sample_type_id", "isnot", JNum(1), JMissing, JMissing, JMissing),
     FilterSpec("sample_type_id", "is", JStr(<<"a">>), JMissing, JMissing, JMissing),
     FilterSpec("id", "is", JList(<<JNum(0)>>), JMissing, JMissing, JMissing),
     FilterSpec("id", "is", JStr(<<"1", "0">>), JMissing, JMissing, JMissing),
     FilterSpec("depth_of_field", "is", JNum(1), JMissing, JMissing, JMissing)}

FilterLists == UNION {[1..n -> FilterSpecs] : n \in 0..MaxTerms}

\* the otu_query of a request
OTUQueries ==
    [taxonomy_filters : RawVectors, amplicon_filter : {JNull},
     contextual_filters : [mode : {"and"}, environment : {JNull}, filters : FilterLists]]

\* the queries of an export: a kingdom selected or not, sites filtered by
\* elevation or not
ExportQueries ==
    [taxonomy_filters : {v \in RawVectors : Len(v) = Len(hierarchy) /\ v[2] = JNull},
     amplicon_filter : {JNull},
     contextual_filters :
         [mode : {"and"}, environment : {JNull},
          filters : {<<>>, <<FilterSpec("elevation", "between", JMissing,
                                        JStr(<<"1", "0", "0">>), JStr(<<"5", "0", "0">>),
                                        JMissing)>>}]]

\* OTUQueryParams of a search for sample OTUs, and the kingdom_id argument
SampleOTUParams ==
    [amplicon_filter : {None},
     taxonomy_filter : {[k \in 1..Len(hierarchy) |-> IF k = 1 THEN a ELSE None] :
                          a \in {None, Is1}},
     contextual_filter : [mode : {"and"}, environment_filter : {None},
                          terms : {<<>>, <<[kind |-> "float", field_name |-> "elevation",
                                            operator |-> "between",
                                            val_from |-> 100, val_to |-> 500]>>}]]

\* kingdom_id: None (here NULL), or the id of the first kingdom
KingdomIds == {NULL, 1}

\* required_headers of matching_sample_headers: the fields of the contextual
\* filters of the request
RequiredHeaders == {<<>>, <<"elevation">>, <<"soil_type">>}

\* order[0][column] and order[0][dir] of the request
SortCols == {<<"0">>, <<"2">>}
SortOrders == {<<"a", "s", "c">>, <<"d", "e", "s", "c">>}

\* otu_ids of query_sample_otus: None, no id, one otu, two otus
OtuIdLists == {PyNone, PyList(<<>>), PyList(<<1>>), PyList(<<1, 2>>)}

\* sample_contextual_ids of query_sample_otus: None, no id, one site, two sites
SampleIdLists == {PyNone, PyList(<<>>), PyList(<<0>>), PyList(<<0, 1>>)}

\* use_union: None, or operator == "union" as edna_get_sample_otu computes it
UseUnion == {PyNone, PyBool(TRUE), PyBool(FALSE)}

-----------------------------------------------------------------------------
(* DataImporter *)

ontology_fields == <<"kingdom", "phylum", "class", "order",
                     "family", "genus", "species", "amplicon">>

column_of(field) ==
    IF field = "amplicon" THEN "amplicon_id"
    ELSE hierarchy[CHOOSE i \in 1..Len(hierarchy) : drop_id(hierarchy[i]) = field]

\* a row of the taxonomy file, a label for each ontology field: kingdom k,
\* label d for the ranks below it, amplicon a
TaxonRow(k, d, a) ==
    [f \in Range(ontology_fields) |->
        IF f = "kingdom" THEN k ELSE IF f = "amplicon" THEN a ELSE d]

\* a lineage, and the lineages that differ from it in the kingdom, below the
\* kingdom, and in the amplicon
TaxonRows == {TaxonRow(1, 1, 1), TaxonRow(2, 1, 1), TaxonRow(1, 2, 1), TaxonRow(1, 1, 2)}

TaxonFiles == UNION {[1..n -> TaxonRows] : n \in 0..MaxTaxa}

\* taxonomy files of one lineage below the kingdom and one amplicon
KingdomFiles ==
    {f \in TaxonFiles : \A i \in 1..Len(f) : f[i]["phylum"] = 1 /\ f[i]["amplicon"] = 1}

\* rows of the metadata file: the columns x, elevation (absent in some
\* files) and soil_type; no file has a sample_type column
SampleRows ==
    {[x |-> 1, elevation |-> 100, soil_type |-> TextAB],
     [x |-> 2, elevation |-> NULL, soil_type |-> TextB],
     [x |-> 1, elevation |-> 600, soil_type |-> TextB]}

SampleFiles == UNION {[1..n -> SampleRows] : n \in 0..MaxSamples}

\* metadata files of sites at x = 1
ElevationFiles == {f \in SampleFiles : \A i \in 1..Len(f) : f[i].x = 1}

\* counts are floats; the model holds them in halves, One being the count 1
One == 2

\* the counts of the data file: one per file row and site column
Counts == {0, 2}

\* counts of 0, 0.5 and 1.5
FractionalCounts == {0, 1, 3}

\* _build_ontology: one row per value, added in sorted order to an empty
\* table, so the ids count up from 1 in the order of the values
build_ontology(vals) ==
    {[id |-> 1 + Cardinality({w \in vals : w < v}), value |-> v] : v \in vals}

\* _load_ontology: the values of each field over all rows, and the mapping
\* from value to id
load_ontology(rows) ==
    [c \in ontology_columns |->
        build_ontology({rows[i][f] : <<i, f>> \in
            {p \in (1..Len(rows)) \X Range(ontology_fields) : column_of(p[2]) = c}})]

mapping(table, v) == (CHOOSE o \in table : o.value = v).id

\* pass 2 of load_edna_taxonomies: one otu row per file row, ids from 1
otu_rows(rows, mappings) ==
    {[c \in ontology_columns \cup {"id"} |->
         IF c = "id" THEN i
         ELSE mapping(mappings[c],
                      rows[i][CHOOSE f \in Range(ontology_fields) : column_of(f) = c])] :
       i \in 1..Len(rows)}

\* otu_lookup[otu_hash(code)] = _id, written for each row in turn: rows with
\* the same code share the id of the last of them
lookup_of(rows) ==
    [i \in 1..Len(rows) |->
        CHOOSE j \in 1..Len(rows) :
            rows[j] = rows[i] /\ \A k \in (j + 1)..Len(rows) : rows[k] # rows[i]]

\* DataImporter(import_base): the schema is dropped and created anew, every
\* table is empty; no cache is touched
DataImporter ==
    /\ pc = "idle"
    /\ ontology' = [c \in ontology_columns |-> {}]
    /\ otu' = {}
    /\ sample_context' = {}
    /\ sample_otu' = {}
    /\ otu_lookup' = <<>>
    /\ loaded' = {}
    /\ UNCHANGED <<cache, pc, call, result, log, callers>>

\* load_edna_taxonomies: the ontologies are committed in pass 1; the COPY of
\* the otu rows may raise, and `finally: return` then discards the exception
load_edna_taxonomies(rows, copy_ok) ==
    /\ "taxonomies" \notin loaded
    /\ pc = "idle"
    /\ ontology' = load_ontology(rows)
    /\ otu' = IF copy_ok THEN otu_rows(rows, ontology') ELSE {}
    /\ otu_lookup' = lookup_of(rows)
    /\ loaded' = loaded \cup {"taxonomies"}
    /\ UNCHANGED <<sample_context, sample_otu, cache, pc, call, result, log, callers>>

\* load_edna_contextual_metadata: site ids count up from 0; a column that the
\* file lacks stays NULL
load_edna_contextual_metadata(rows) ==
    /\ "metadata" \notin loaded
    /\ pc = "idle"
    /\ sample_context' =
           {[id |-> i - 1, x |-> rows[i].x, elevation |-> rows[i].elevation,
             soil_type |-> rows[i].soil_type, sample_type_id |-> NULL] :
              i \in 1..Len(rows)}
    /\ loaded' = loaded \cup {"metadata"}
    /\ UNCHANGED <<ontology, otu, sample_otu, otu_lookup, cache, pc, call, result, log,
                   callers>>

\* _make_sample_otus: a row for every count > 0
make_sample_otus(counts) ==
    {<<i, sid>> \in (1..Len(otu_lookup)) \X {r.id : r \in sample_context} :
        counts[<<i, sid>>] > 0}

\* the COPY into sample_otu raises on a repeated (sample_id, otu_id) key and on
\* an otu_id that is not in otu.otu
copy_accepts(cells) ==
    /\ \A c, d \in cells : (otu_lookup[c[1]] = otu_lookup[d[1]] /\ c[2] = d[2]) => c = d
    /\ \A c \in cells : \E o \in otu : o.id = otu_lookup[c[1]]

\* _clear_edna_caches: cache.delete(key) on the two eDNA caches
clear_edna_caches ==
    cache_delete({"edna_sample_otu_results", "edna_taxonomy_options_results"}, edna_key)

\* load_edna_otu_abundance: the rows are written to a CSV file and copied
\* into sample_otu, and the eDNA caches are cleared after the COPY; when the
\* COPY raises the exception is logged and dropped
load_edna_otu_abundance(counts, copy_ok) ==
    /\ {"metadata", "taxonomies"} \subseteq loaded
    /\ "abundance" \notin loaded
    /\ pc = "idle"
    /\ sample_otu' =
           IF copy_ok /\ copy_accepts(make_sample_otus(counts))
           THEN {[sample_id |-> c[2], otu_id |-> otu_lookup[c[1]],
                  count |-> counts[c], proportional_abundance |-> <<0, 1>>] :
                   c \in make_sample_otus(counts)}
           ELSE sample_otu
    /\ cache' = IF copy_ok /\ copy_accepts(make_sample_otus(counts))
                THEN clear_edna_caches ELSE cache
    /\ loaded' = loaded \cup {"abundance"}
    /\ UNCHANGED <<ontology, otu, sample_context, otu_lookup, pc, call, result, log,
                   callers>>

-----------------------------------------------------------------------------
(* EdnaPostImport *)

\* func.sum(SampleOTU.count) over the rows S
RECURSIVE sum_count(_)
sum_count(S) ==
    IF S = {} THEN 0
    ELSE LET e == CHOOSE e \in S : TRUE IN e.count + sum_count(S \ {e})

\* sample_totals_dict: SELECT sample_id, sum(count) FROM sample_otu WHERE
\* count >= 1 GROUP BY sample_id, a total for each sample with such a row
sample_totals_dict ==
    [key \in {e.sample_id : e \in {a \in sample_otu : a.count >= One}} |->
        sum_count({a \in sample_otu : a.sample_id = key /\ a.count >= One})]

\* the quotient by the total rounded down to a whole count
quotient_by_rows(count, value) == <<count, value \div One>>

\* the quotient count / value, a rational number held as <<count, value>>
quotient(count, value) == <<count, value>>

\* _normalize_abundances: for each sample that has a total, every
\* sample_otu row of the sample gets count / total, and the session commits
normalize_abundances ==
    /\ pc = "idle"
    /\ sample_otu' =
           {IF e.sample_id \in DOMAIN sample_totals_dict
            THEN [e EXCEPT !.proportional_abundance =
                               quotient(e.count, sample_totals_dict[e.sample_id])]
            ELSE e : e \in sample_otu}
    /\ UNCHANGED <<ontology, otu, sample_context, otu_lookup, loaded, cache, pc, call,
                   result, log, callers>>

-----------------------------------------------------------------------------
(* Requests *)

\* request c can be served: as a new request, or as the request just served
\* sent once more
ready(c) == pc = "idle" \/ (pc = "responded" /\ call = c)

\* the position after serving a request
served == IF pc = "idle" THEN "responded" ELSE "repeated"


\* views.taxonomy_options -> TaxonomyOptions.possibilities: cache.get(key),
\* and _possibilities when it gives nothing; cache.set is commented out
possibilities(amplicon, state) ==
    LET key == <<"TaxonomyOptions:cached", amplicon, state>>
        got == cache_get("search_results", key)
    IN /\ ready([op |-> "possibilities", amplicon |-> amplicon, state |-> state])
       /\ \E r \in (IF falsy(got) THEN possibilities_results(amplicon, state)
                    ELSE {got.value}) : result' = r
       /\ log' = <<Opened("TaxonomyOptions"), Got("search_results", key)>>
                 \o (IF falsy(got) THEN <<Queried("TaxonomyOptions")>> ELSE <<>>)
                 \o <<Closed("TaxonomyOptions")>>
       /\ call' = [op |-> "possibilities", amplicon |-> amplicon, state |-> state]
       /\ pc' = served
       /\ UNCHANGED <<tables, cache, callers>>

\* the rows of the query of matching_samples
matching_samples_rows(params) ==
    order_by_id(apply_filters(sample_context, build_taxonomy_subquery(params), params))

\* with SampleQuery(params) as query: query.matching_samples()
matching_samples(params) ==
    /\ ready([op |-> "matching_samples", params |-> params])
    /\ result' = Result("rows", "", <<>>, <<>>,
                        q_all_cached("matching_samples", params,
                                     matching_samples_rows(params)),
                        "")
    /\ log' = <<Opened("SampleQuery")>>
              \o q_all_cached_log("matching_samples", params)
              \o <<Closed("SampleQuery")>>
    /\ call' = [op |-> "matching_samples", params |-> params]
    /\ pc' = served
    /\ UNCHANGED <<tables, cache, callers>>

\* views.otu_search -> SampleQuery.matching_sample_ids_and_environment:
\* SampleContext has no attribute _x, evaluating SampleContext._x raises
\* before a query is built
matching_sample_ids_and_environment(params) ==
    /\ ready([op |-> "matching_sample_ids_and_environment", params |-> params])
    /\ result' = Result("error", "", <<>>, <<>>, <<>>, "AttributeError")
    /\ log' = <<Opened("SampleQuery"), Closed("SampleQuery")>>
    /\ call' = [op |-> "matching_sample_ids_and_environment", params |-> params]
    /\ pc' = served
    /\ UNCHANGED <<tables, cache, callers>>

\* views.required_table_headers -> with SampleQuery(params) as query:
\* query.matching_sample_headers(required_headers, sort_col, sort_order).
\* SampleContext has no attribute environment_id: building query_headers
\* raises before the headers, the sort arguments or the cache are looked at
matching_sample_headers(params, required_headers, sort_col, sort_order) ==
    /\ pc = "idle"
    /\ result' = Result("error", "", <<>>, <<>>, <<>>, "AttributeError")
    /\ log' = <<Opened("SampleQuery"), Closed("SampleQuery")>>
    /\ call' = [op |-> "matching_sample_headers", params |-> params,
                required_headers |-> required_headers, sort_col |-> sort_col,
                sort_order |-> sort_order]
    /\ pc' = "responded"
    /\ UNCHANGED <<tables, cache, callers>>

\* an exception leaves the view: the response is a server error
ServerError(exc) == Result("error", "", <<>>, <<>>, <<>>, exc)

\* JsonResponse({'errors': ..., 'data': []})
ErrorsResponse(errors) == [kind |-> "errors", errors |-> errors, rows |-> <<>>, exc |-> ""]

\* views.otu_search_sample_sites: the errors of param_to_filters are returned
\* before a SampleQuery is made
otu_search_sample_sites(otu_query) ==
    LET p == param_to_filters(otu_query)
    IN /\ ready([op |-> "otu_search_sample_sites", otu_query |-> otu_query])
       /\ result' = IF p.raised THEN ServerError(p.exc)
                     ELSE IF p.v.errors # <<>> THEN ErrorsResponse(p.v.errors)
                     ELSE Result("rows", "", <<>>, <<>>,
                                 q_all_cached("matching_samples", p.v.params,
                                              matching_samples_rows(p.v.params)),
                                 "")
       /\ log' = IF p.raised \/ p.v.errors # <<>> THEN <<>>
                  ELSE <<Opened("SampleQuery")>>
                       \o q_all_cached_log("matching_samples", p.v.params)
                       \o <<Closed("SampleQuery")>>
       /\ call' = [op |-> "otu_search_sample_sites", otu_query |-> otu_query]
       /\ pc' = served
       /\ UNCHANGED <<tables, cache, callers>>

\* views.otu_search: make_environment_lookup, param_to_filters, then
\* matching_sample_ids_and_environment, which raises, before the errors are
\* looked at
otu_search(otu_query) ==
    LET p == param_to_filters(otu_query)
        environment_lookup ==
            <<Opened("OntologyInfo"), Queried("OntologyInfo"), Closed("OntologyInfo")>>
    IN /\ ready([op |-> "otu_search", otu_query |-> otu_query])
       /\ result' = IF p.raised THEN ServerError(p.exc) ELSE ServerError("AttributeError")
       /\ log' = environment_lookup
                  \o (IF p.raised THEN <<>>
                      ELSE <<Opened("SampleQuery"), Closed("SampleQuery")>>)
       /\ call' = [op |-> "otu_search", otu_query |-> otu_query]
       /\ pc' = served
       /\ UNCHANGED <<tables, cache, callers>>

\* OntologyInfo.get_values(OTUKingdom): the rows sorted by value
kingdom_values == order_by_value({<<o.id, o.value>> : o \in ontology["kingdom_id"]})

\* the kingdoms for which otu_export writes a file
exported_kingdoms(params) ==
    SelectSeq(kingdom_values, LAMBDA k : has_matching_sample_otus_value(params, k[1]))

\* has_matching_sample_otus for each kingdom in turn: the cache is read and
\* the EXISTS query is executed
RECURSIVE has_matching_log(_, _)
has_matching_log(params, kingdoms) ==
    IF kingdoms = <<>> THEN <<>>
    ELSE q_all_cached_log(<<"has_matching_sample_otus", Head(kingdoms)[1]>>, params)
         \o has_matching_log(params, Tail(kingdoms))

\* views.otu_export: the errors of param_to_filters are not looked at;
\* contextual.csv is written from matching_samples and a file is registered
\* for each kingdom with matching sample OTUs inside the with block; the rows
\* of each file are queried by its generator when StreamingHttpResponse
\* iterates the zip, after the with block has closed the session
otu_export(otu_query) ==
    LET p == param_to_filters(otu_query)
        params == p.v.params
        written == exported_kingdoms(params)
    IN /\ ready([op |-> "otu_export", otu_query |-> otu_query])
       /\ result' =
              IF p.raised THEN ServerError(p.exc)
              ELSE [kind |-> "zip",
                    contextual |-> q_all_cached("matching_samples", params,
                                               matching_samples_rows(params)),
                    files |-> [i \in 1..Len(written) |->
                                  [name |-> written[i][2],
                                   rows |-> matching_sample_otus_rows(params, written[i][1])]],
                    exc |-> ""]
       /\ log' =
              IF p.raised THEN <<>>
              ELSE <<Opened("SampleQuery")>>
                   \o q_all_cached_log("matching_samples", params)
                   \o <<Opened("OntologyInfo"), Queried("OntologyInfo"), Closed("OntologyInfo"),
                        Opened("OntologyInfo"), Queried("OntologyInfo")>>
                   \o has_matching_log(params, kingdom_values)
                   \o <<Closed("OntologyInfo"), Closed("SampleQuery")>>
                   \o [i \in 1..Len(written) |-> Queried("SampleQuery")]
       /\ call' = [op |-> "otu_export", otu_query |-> otu_query]
       /\ pc' = served
       /\ UNCHANGED <<tables, cache, callers>>

\* with SampleQuery(params) as query: query.has_matching_sample_otus(kingdom_id)
has_matching_sample_otus(params, kingdom_id) ==
    /\ ready([op |-> "has_matching_sample_otus", params |-> params, kingdom_id |-> kingdom_id])
    /\ result' = [kind |-> "boolean",
                  value |-> has_matching_sample_otus_value(params, kingdom_id), exc |-> ""]
    /\ log' = <<Opened("SampleQuery")>>
              \o q_all_cached_log(<<"has_matching_sample_otus", kingdom_id>>, params)
              \o <<Closed("SampleQuery")>>
    /\ call' = [op |-> "has_matching_sample_otus", params |-> params,
                kingdom_id |-> kingdom_id]
    /\ pc' = served
    /\ UNCHANGED <<tables, cache, callers>>

\* with SampleQuery(params) as query: the rows of
\* query.matching_sample_otus(kingdom_id), iterated; the query is not cached
matching_sample_otus(params, kingdom_id) ==
    /\ ready([op |-> "matching_sample_otus", params |-> params, kingdom_id |-> kingdom_id])
    /\ result' = [kind |-> "triples",
                  rows |-> matching_sample_otus_rows(params, kingdom_id), exc |-> ""]
    /\ log' = <<Opened("SampleQuery"), Queried("SampleQuery"), Closed("SampleQuery")>>
    /\ call' = [op |-> "matching_sample_otus", params |-> params, kingdom_id |-> kingdom_id]
    /\ pc' = served
    /\ UNCHANGED <<tables, cache, callers>>

\* get_sample_ids: a session, the ids of sample_context in the order the
\* database gives them, session.close(); when the query raises, the
\* exception leaves the function before session.close()
get_sample_ids(db_ok) ==
    /\ ready([op |-> "get_sample_ids", db_ok |-> db_ok])
    /\ \E ids \in AllOrders({r.id : r \in sample_context}) :
           result' = IF db_ok THEN Result("rows", "", <<>>, <<>>, ids, "")
                     ELSE ServerError("OperationalError")
    /\ log' = <<Opened("get_sample_ids"), Queried("get_sample_ids")>>
              \o (IF db_ok THEN <<Closed("get_sample_ids")>> ELSE <<>>)
    /\ call' = [op |-> "get_sample_ids", db_ok |-> db_ok]
    /\ pc' = served
    /\ UNCHANGED <<tables, cache, callers>>

\* with EdnaSampleOTUQuery() as q: q.query_sample_otus(otu_ids,
\* sample_contextual_ids, use_union). With no ids and no intersection asked
\* for, the cached list is returned when there is one and
\* _query_sample_otus() is called without arguments when there is none;
\* otherwise _query_sample_otus is called with the arguments
query_sample_otus(otu_ids, sample_contextual_ids, use_union) ==
    LET whole == /\ otu_ids.type = "NoneType"
                 /\ sample_contextual_ids.type = "NoneType"
                 /\ (use_union.type = "NoneType" \/ is_True(use_union))
        got == cache_get("edna_sample_otu_results", edna_key["edna_sample_otu_results"])
    IN /\ pc = "idle"
       /\ \/ /\ whole /\ ~falsy(got)
             /\ result' = [kind |-> "sample_otus", rows |-> got.value, exc |-> ""]
          \/ /\ (whole /\ falsy(got))
                    \/ (~whole /\ query_sample_otus_raises(otu_ids, sample_contextual_ids,
                                                            use_union))
             /\ result' = [kind |-> "sample_otus", rows |-> <<>>, exc |-> "TypeError"]
          \/ /\ ~whole
             /\ ~query_sample_otus_raises(otu_ids, sample_contextual_ids, use_union)
             /\ \E rows \in query_sample_otus_rows(otu_ids, sample_contextual_ids,
                                                    use_union) :
                    result' = [kind |-> "sample_otus", rows |-> rows, exc |-> ""]
       /\ log' = <<Opened("EdnaSampleOTUQuery")>>
                 \o (IF whole THEN <<Got("edna_sample_otu_results",
                                         edna_key["edna_sample_otu_results"])>>
                     ELSE <<>>)
                 \o (IF whole /\ ~falsy(got) THEN <<>>
                     ELSE <<Queried("EdnaSampleOTUQuery")>>)
                 \o <<Closed("EdnaSampleOTUQuery")>>
       /\ call' = [op |-> "query_sample_otus", otu_ids |-> otu_ids,
                   sample_contextual_ids |-> sample_contextual_ids,
                   use_union |-> use_union]
       /\ pc' = "responded"
       /\ UNCHANGED <<tables, cache, callers>>

\* contextual_filter = ContextualFilter(mode, environment_filter)
ContextualFilter(mode, environment_filter) ==
    /\ pc = "idle"
    /\ result' = [kind |-> "filter", mode |-> mode,
                  environment_filter |-> environment_filter, terms |-> <<>>, exc |-> ""]
    /\ call' = [op |-> "ContextualFilter"]
    /\ pc' = "responded"
    /\ UNCHANGED <<tables, cache, log, callers>>

\* contextual_filter.add_term(cls(field_name, operator, *operands)): when the
\* constructor raises, add_term is not reached
add_term(cls, operands) ==
    /\ pc = "responded"
    /\ result.kind = "filter"
    /\ Len(result.terms) < MaxTerms
    /\ result' = IF construct(cls, operands).raised
                  THEN [result EXCEPT !.exc = construct(cls, operands).exc]
                  ELSE [result EXCEPT !.terms = Append(@, construct(cls, operands).v),
                                      !.exc = ""]
    /\ call' = [op |-> "add_term", cls |-> cls, operands |-> operands]
    /\ UNCHANGED <<tables, cache, pc, log, callers>>

\* the response is sent, the next request can be served
next_request ==
    /\ pc \in {"responded", "repeated"}
    /\ pc' = "idle"
    /\ call' = NoCall
    /\ result' = NoResult
    /\ log' = <<>>
    /\ UNCHANGED <<tables, cache, callers>>

-----------------------------------------------------------------------------

\* the schema as DataImporter.__init__ leaves it: dropped and created anew
Init ==
    /\ ontology = [c \in ontology_columns |-> {}]
    /\ otu = {}
    /\ sample_context = {}
    /\ sample_otu = {}
    /\ otu_lookup = <<>>
    /\ loaded = {}
    /\ cache = [n \in cache_names |-> {}]
    /\ pc = "idle"
    /\ call = NoCall
    /\ result = NoResult
    /\ log = <<>>
    /\ callers = [c \in Callers |-> NoCaller]

Next ==
    \/ \E rows \in TaxonFiles, copy_ok \in BOOLEAN : load_edna_taxonomies(rows, copy_ok)
    \/ pc = "idle" /\ \E amplicon \in AmpliconOptions, state \in TaxonomyStates :
                          possibilities(amplicon, state)
    \/ call.op = "possibilities" /\ possibilities(call.amplicon, call.state)
    \/ next_request

Spec == Init /\ [][Next]_vars

\* the contextual filter over imported samples
NextContextual ==
    \/ \E rows \in SampleFiles : load_edna_contextual_metadata(rows)
    \/ pc = "idle" /\ \E params \in ContextualParams : matching_samples(params)
    \/ call.op = "matching_samples" /\ matching_samples(call.params)
    \/ next_request

SpecContextual == Init /\ [][NextContextual]_vars

\* the sample searches over imported samples, taxa and abundances
NextSample ==
    \/ \E rows \in ElevationFiles : load_edna_contextual_metadata(rows)
    \/ \E rows \in KingdomFiles, copy_ok \in BOOLEAN : load_edna_taxonomies(rows, copy_ok)
    \/ \E counts \in [(1..Len(otu_lookup)) \X {r.id : r \in sample_context} -> Counts],
          copy_ok \in BOOLEAN : load_edna_otu_abundance(counts, copy_ok)
    \/ pc = "idle" /\ \E params \in TaxonomyParams : matching_samples(params)
    \/ call.op = "matching_samples" /\ matching_samples(call.params)
    \/ pc = "idle" /\ \E params \in TaxonomyParams :
                          matching_sample_ids_and_environment(params)
    \/ call.op = "matching_sample_ids_and_environment"
           /\ matching_sample_ids_and_environment(call.params)
    \/ next_request

SpecSample == Init /\ [][NextSample]_vars

\* metadata files of at most one site
SiteFiles == {f \in ElevationFiles : Len(f) <= 1}

\* import runs, one after another, and a thread doing cached reads
NextImport ==
    \/ DataImporter
    \/ \E rows \in SiteFiles : load_edna_contextual_metadata(rows)
    \/ \E rows \in KingdomFiles, copy_ok \in BOOLEAN : load_edna_taxonomies(rows, copy_ok)
    \/ \E counts \in [(1..Len(otu_lookup)) \X {r.id : r \in sample_context} -> Counts],
          copy_ok \in BOOLEAN : load_edna_otu_abundance(counts, copy_ok)
    \/ \E op \in cached_reads : read_cache(1, op)
    \/ compute(1)
    \/ write_cache(1)
    \/ leave(1)

SpecImport == Init /\ [][NextImport]_vars

\* taxonomy files without a repeated row
DistinctFiles ==
    {f \in KingdomFiles : \A i, j \in 1..Len(f) : f[i] = f[j] => i = j}

\* import runs whose COPY statements succeed, so that each run ends with
\* _clear_edna_caches(), and a thread doing cached reads at any time
NextRace ==
    \/ DataImporter
    \/ \E rows \in SiteFiles : load_edna_contextual_metadata(rows)
    \/ \E rows \in DistinctFiles : load_edna_taxonomies(rows, TRUE)
    \/ \E counts \in [(1..Len(otu_lookup)) \X {r.id : r \in sample_context} -> Counts] :
           load_edna_otu_abundance(counts, TRUE)
    \/ \E op \in cached_reads : read_cache(1, op)
    \/ compute(1)
    \/ write_cache(1)
    \/ leave(1)

SpecRace == Init /\ [][NextRace]_vars

\* the views that validate a query, over imported sites
NextViews ==
    \/ \E rows \in SiteFiles : load_edna_contextual_metadata(rows)
    \/ pc = "idle" /\ \E q \in OTUQueries : otu_search_sample_sites(q)
    \/ call.op = "otu_search_sample_sites" /\ otu_search_sample_sites(call.otu_query)
    \/ pc = "idle" /\ \E q \in OTUQueries : otu_search(q)
    \/ call.op = "otu_search" /\ otu_search(call.otu_query)
    \/ pc = "idle" /\ \E q \in OTUQueries : otu_export(q)
    \/ call.op = "otu_export" /\ otu_export(call.otu_query)
    \/ next_request

SpecViews == Init /\ [][NextViews]_vars

\* exports and the list of sample ids, over imported samples, taxa and
\* abundances
NextExport ==
    \/ \E rows \in ElevationFiles : load_edna_contextual_metadata(rows)
    \/ \E rows \in KingdomFiles, copy_ok \in BOOLEAN : load_edna_taxonomies(rows, copy_ok)
    \/ \E counts \in [(1..Len(otu_lookup)) \X {r.id : r \in sample_context} -> Counts],
          copy_ok \in BOOLEAN : load_edna_otu_abundance(counts, copy_ok)
    \/ pc = "idle" /\ \E q \in ExportQueries : otu_export(q)
    \/ call.op = "otu_export" /\ otu_export(call.otu_query)
    \/ pc = "idle" /\ \E db_ok \in BOOLEAN : get_sample_ids(db_ok)
    \/ call.op = "get_sample_ids" /\ get_sample_ids(call.db_ok)
    \/ next_request

SpecExport == Init /\ [][NextExport]_vars

\* the searches for sample OTUs, over imported samples, taxa and abundances
NextSampleOTU ==
    \/ \E rows \in ElevationFiles : load_edna_contextual_metadata(rows)
    \/ \E rows \in KingdomFiles, copy_ok \in BOOLEAN : load_edna_taxonomies(rows, copy_ok)
    \/ \E counts \in [(1..Len(otu_lookup)) \X {r.id : r \in sample_context} -> Counts],
          copy_ok \in BOOLEAN : load_edna_otu_abundance(counts, copy_ok)
    \/ pc = "idle" /\ \E params \in SampleOTUParams, kingdom_id \in KingdomIds :
                          has_matching_sample_otus(params, kingdom_id)
    \/ call.op = "has_matching_sample_otus"
           /\ has_matching_sample_otus(call.params, call.kingdom_id)
    \/ pc = "idle" /\ \E params \in SampleOTUParams, kingdom_id \in KingdomIds :
                          matching_sample_otus(params, kingdom_id)
    \/ call.op = "matching_sample_otus"
           /\ matching_sample_otus(call.params, call.kingdom_id)
    \/ next_request

SpecSampleOTU == Init /\ [][NextSampleOTU]_vars

\* metadata files of at most two sites
SitePairs == {f \in ElevationFiles : Len(f) <= 2}

\* the abundances normalised after an import with fractional counts
NextNormalize ==
    \/ \E rows \in SitePairs : load_edna_contextual_metadata(rows)
    \/ \E rows \in KingdomFiles, copy_ok \in BOOLEAN : load_edna_taxonomies(rows, copy_ok)
    \/ \E counts \in [(1..Len(otu_lookup)) \X {r.id : r \in sample_context}
                         -> FractionalCounts],
          copy_ok \in BOOLEAN : load_edna_otu_abundance(counts, copy_ok)
    \/ normalize_abundances

SpecNormalize == Init /\ [][NextNormalize]_vars

\* the abundances read by lists of otu ids and of site ids
NextSampleOTUIds ==
    \/ \E rows \in SitePairs : load_edna_contextual_metadata(rows)
    \/ \E rows \in KingdomFiles, copy_ok \in BOOLEAN : load_edna_taxonomies(rows, copy_ok)
    \/ \E counts \in [(1..Len(otu_lookup)) \X {r.id : r \in sample_context} -> Counts],
          copy_ok \in BOOLEAN : load_edna_otu_abundance(counts, copy_ok)
    \/ \E otu_ids \in OtuIdLists, sample_contextual_ids \in SampleIdLists,
          use_union \in UseUnion :
           query_sample_otus(otu_ids, sample_contextual_ids, use_union)
    \/ next_request

SpecSampleOTUIds == Init /\ [][NextSampleOTUIds]_vars

\* the table of sample headers asked for under each filter state
NextHeaders ==
    \/ \E rows \in ElevationFiles : load_edna_contextual_metadata(rows)
    \/ \E params \in SampleOTUParams, required_headers \in RequiredHeaders,
          sort_col \in SortCols, sort_order \in SortOrders :
           matching_sample_headers(params, required_headers, sort_col, sort_order)
    \/ next_request

SpecHeaders == Init /\ [][NextHeaders]_vars

\* contextual filters built term by term
NextTerms ==
    \/ \E mode \in {"and", "or"} : ContextualFilter(mode, None)
    \/ \E c \in TermCalls : add_term(c.cls, c.operands)
    \/ next_request

SpecTerms == Init /\ [][NextTerms]_vars

\* no thread is inside a cached read or holds what it returned
AllOut == \A c \in Callers : callers[c].at = "out"

\* threads doing cached reads at once, the tables changing only while no
\* thread is reading
NextCached ==
    \/ AllOut /\ \E rows \in TaxonFiles, copy_ok \in BOOLEAN :
                     load_edna_taxonomies(rows, copy_ok)
    \/ \E c \in Callers, op \in cached_reads : read_cache(c, op)
    \/ \E c \in Callers : compute(c)
    \/ \E c \in Callers : write_cache(c)
    \/ \E c \in Callers : leave(c)

SpecCached == Init /\ [][NextCached]_vars

-----------------------------------------------------------------------------
(* Properties of TaxonomyOptions.possibilities *)

RankNames == <<"kingdom", "phylum", "class", "order", "family", "genus", "species">>

RankIndex(name) == CHOOSE k \in 0..6 : RankNames[k + 1] = name

PossibilitiesServed == pc = "responded" /\ call.op = "possibilities"

\* a slot that selects nothing
EmptySlot(f) == f = None \/ f.value = NULL

\* taxon r passes the filter f on column attr
Passes(r, attr, f) ==
    \/ EmptySlot(f)
    \/ /\ r[attr] # NULL
       /\ (f.operator = "isnot") => (r[attr] # f.value)
       /\ (f.operator # "isnot") => (r[attr] = f.value)

\* the taxa that satisfy the amplicon filter and the slots at ranks 0..k-1
TaxaUnder(amplicon, state, k) ==
    {r \in otu : /\ Passes(r, "amplicon_id", amplicon)
                 /\ \A j \in 0..(k - 1) : Passes(r, hierarchy[j + 1], state[j + 1])}

InvalidRank(amplicon, state, k) ==
    EmptySlot(state[k + 1]) \/ TaxaUnder(amplicon, state, k + 1) = {}

InvalidRanks(amplicon, state) == {k \in 0..6 : InvalidRank(amplicon, state, k)}

EmptySlots(state) == {k \in 0..6 : EmptySlot(state[k + 1])}

Least(S) == CHOOSE k \in S : \A j \in S : k <= j

\* the (id, label) pairs of the ontology of rank k that occur among the taxa S
PairsAmong(S, k) ==
    {<<o.id, o.value>> : o \in {e \in ontology[hierarchy[k + 1]] :
                                   \E r \in S : r[hierarchy[k + 1]] = e.id}}

KingdomShortcut == call.amplicon = None /\ result.target = "kingdom"

\* C1: the target is the first rank whose slot is empty or under which no
\* taxon satisfies the amplicon filter and the slots up to it; {} is
\* returned exactly when there is no such rank
C1_TargetIsFirstInvalidRank ==
    PossibilitiesServed =>
        LET invalid == InvalidRanks(call.amplicon, call.state)
        IN IF invalid = {} THEN result.kind = "empty"
           ELSE result.kind = "options" /\ result.target = RankNames[Least(invalid) + 1]

\* a filled slot below the kingdom that no taxon matches became the target
C1_Witness ==
    /\ PossibilitiesServed /\ result.kind = "options"
    /\ RankIndex(result.target) >= 2
    /\ ~EmptySlot(call.state[RankIndex(result.target) + 1])
    /\ call.amplicon # None /\ otu # {}

\* C2 as stated: whenever there is a target, the possibilities are the
\* distinct (id, label) pairs of the target rank that occur among the taxa
\* under the amplicon filter and the slots shallower than the target
C2_PossibilitiesOccurAmongTaxa ==
    (PossibilitiesServed /\ result.kind = "options") =>
        LET t == RankIndex(result.target)
        IN /\ Range(result.possibilities) =
                  PairsAmong(TaxaUnder(call.amplicon, call.state, t), t)
           /\ Len(result.possibilities) = Cardinality(Range(result.possibilities))

\* C2 amended: the same, except that for target kingdom with no amplicon
\* argument the possibilities are all rows of the kingdom ontology table
C2_PossibilitiesOccurAmongTaxaOrAllKingdoms ==
    (PossibilitiesServed /\ result.kind = "options") =>
        LET t == RankIndex(result.target)
        IN /\ Len(result.possibilities) = Cardinality(Range(result.possibilities))
           /\ ~KingdomShortcut =>
                  Range(result.possibilities) =
                      PairsAmong(TaxaUnder(call.amplicon, call.state, t), t)
           /\ KingdomShortcut =>
                  Range(result.possibilities) =
                      {<<o.id, o.value>> : o \in ontology["kingdom_id"]}

\* kingdom selected, phylum rejected or empty, no amplicon: the phyla under
\* the kingdom are listed, and they are not all the phyla of the table
C2_Witness ==
    /\ PossibilitiesServed /\ result.kind = "options"
    /\ call.amplicon = None /\ result.target = "phylum"
    /\ result.possibilities # <<>>
    /\ Len(result.possibilities) < Cardinality(ontology["phylum_id"])

\* C3: clear is the rank names from the target to species, and the target is
\* its first element
C3_ClearIsTargetAndDeeper ==
    (PossibilitiesServed /\ result.kind = "options") =>
        LET t == RankIndex(result.target)
        IN /\ result.clear = [i \in 1..(7 - t) |-> RankNames[t + i]]
           /\ result.target = result.clear[1]

C3_Witness ==
    /\ PossibilitiesServed /\ result.kind = "options"
    /\ call.amplicon # None /\ call.amplicon.value # NULL
    /\ result.target = "order" /\ Len(result.clear) = 4

\* C4: the possibilities are in ascending order of label
C4_PossibilitiesOrderedByLabel ==
    (PossibilitiesServed /\ result.kind = "options") =>
        \A i, j \in 1..Len(result.possibilities) :
            i < j => result.possibilities[i][2] <= result.possibilities[j][2]

\* every slot before the first empty slot is matched by some taxon, together
\* with the amplicon filter and the slots before it
ValidPrefix(amplicon, state) ==
    \A j \in 0..(Least(EmptySlots(state)) - 1) : TaxaUnder(amplicon, state, j + 1) # {}

\* C5 as stated: the target is never shallower than the first empty slot
C5_TargetNotShallowerThanFirstEmpty ==
    (PossibilitiesServed /\ result.kind = "options" /\ EmptySlots(call.state) # {}) =>
        RankIndex(result.target) >= Least(EmptySlots(call.state))

\* C5 amended: when every slot before the first empty slot is matched by
\* some taxon, the target is not shallower than the first empty slot;
\* otherwise the target is shallower than it
C5_TargetVersusFirstEmpty ==
    (PossibilitiesServed /\ EmptySlots(call.state) # {}) =>
        /\ result.kind = "options"
        /\ ValidPrefix(call.amplicon, call.state) =>
               RankIndex(result.target) >= Least(EmptySlots(call.state))
        /\ ~ValidPrefix(call.amplicon, call.state) =>
               RankIndex(result.target) < Least(EmptySlots(call.state))

\* three matched selections, then an empty slot with a null value
C5_Witness ==
    /\ PossibilitiesServed /\ result.kind = "options"
    /\ EmptySlots(call.state) # {}
    /\ ValidPrefix(call.amplicon, call.state)
    /\ Least(EmptySlots(call.state)) = 3
    /\ call.state[4] # None
    /\ result.target = "order"

-----------------------------------------------------------------------------
(* Properties of ContextualFilter and SampleQuery *)

SamplesServed == pc = "responded" /\ call.op = "matching_samples" /\ result.kind = "rows"

Kept(r) == \E i \in 1..Len(result.rows) : result.rows[i] = r

\* every condition of term t holds on row r
TermHolds(t, r) == \A i \in 1..Len(conditions(t, r)) : conditions(t, r)[i] = "t"

\* some condition of term t holds on row r
SomeConditionHolds(t, r) == \E i \in 1..Len(conditions(t, r)) : conditions(t, r)[i] = "t"

EnvironmentHolds(cf, r) == Passes(r, "x", cf.environment_filter)

\* C6 as stated: a sample is kept exactly when the environment constraint
\* holds and, under "and", every condition of every term holds, under "or",
\* at least one condition of some term holds
C6_KeptIffEnvironmentAndTerms ==
    SamplesServed =>
        LET cf == call.params.contextual_filter
        IN \A r \in sample_context :
              Kept(r) <=>
                  /\ EnvironmentHolds(cf, r)
                  /\ IF cf.mode = "and"
                     THEN \A i \in 1..Len(cf.terms) : TermHolds(cf.terms[i], r)
                     ELSE \E i \in 1..Len(cf.terms) : SomeConditionHolds(cf.terms[i], r)

\* C6 amended: the same for a filter that has terms; with no terms, in either
\* mode, a sample is kept exactly when the environment constraint holds
C6_KeptIffEnvironmentAndTermsIfAny ==
    SamplesServed =>
        LET cf == call.params.contextual_filter
        IN \A r \in sample_context :
              Kept(r) <=>
                  /\ EnvironmentHolds(cf, r)
                  /\ \/ cf.terms = <<>>
                     \/ IF cf.mode = "and"
                        THEN \A i \in 1..Len(cf.terms) : TermHolds(cf.terms[i], r)
                        ELSE \E i \in 1..Len(cf.terms) : SomeConditionHolds(cf.terms[i], r)

\* under "or", a sample on which one term holds and the other does not is
\* kept, and a sample on which a term holds is dropped by the environment
C6_Witness ==
    /\ SamplesServed
    /\ LET cf == call.params.contextual_filter
       IN /\ cf.mode = "or" /\ Len(cf.terms) = 2
          /\ \E r \in sample_context :
                Kept(r) /\ TermHolds(cf.terms[1], r) /\ ~TermHolds(cf.terms[2], r)
          /\ \E r \in sample_context :
                ~Kept(r) /\ TermHolds(cf.terms[1], r) /\ ~EnvironmentHolds(cf, r)

\* C7: with no terms the search returns rows, and they are the samples on
\* which the environment constraint holds, under "or" as under "and"
C7_NoTermsKeepsEnvironmentOnly ==
    (pc = "responded" /\ call.op = "matching_samples"
        /\ call.params.contextual_filter.terms = <<>>) =>
        /\ result.kind = "rows"
        /\ \A r \in sample_context :
              Kept(r) <=> EnvironmentHolds(call.params.contextual_filter, r)

\* under "or" with no terms one sample is kept and another dropped by the
\* environment constraint
C7_Witness ==
    /\ SamplesServed
    /\ call.params.contextual_filter.mode = "or"
    /\ call.params.contextual_filter.terms = <<>>
    /\ result.rows # <<>>
    /\ Len(result.rows) < Cardinality(sample_context)

NegativeOperators == {"isnot", "notbetween", "containsnot"}

\* the term with the positive operator that corresponds to its negative one
PositiveTerm(t) ==
    [t EXCEPT !.operator = CASE t.operator = "isnot" -> "is"
                             [] t.operator = "notbetween" -> "between"
                             [] t.operator = "containsnot" -> "contains"
                             [] OTHER -> t.operator]

NegativeTerms(cf) ==
    {cf.terms[i] : i \in {j \in 1..Len(cf.terms) : cf.terms[j].operator \in NegativeOperators}}

\* the field of term t is NULL on row r (a text column never is)
FieldIsNull(t, r) == t.kind # "string" /\ r[t.field_name] = NULL

\* C8 as stated: on every row, the conditions of a term with a negative
\* operator hold exactly when those of the positive term do not
C8_NegativeIsComplement ==
    SamplesServed =>
        \A t \in NegativeTerms(call.params.contextual_filter) : \A r \in sample_context :
            TermHolds(t, r) <=> ~TermHolds(PositiveTerm(t), r)

\* C8 amended: that holds on the rows whose field is not NULL; on a row whose
\* field is NULL neither the negative nor the positive term holds
C8_NegativeIsComplementUnlessNull ==
    SamplesServed =>
        \A t \in NegativeTerms(call.params.contextual_filter) : \A r \in sample_context :
            IF FieldIsNull(t, r)
            THEN ~TermHolds(t, r) /\ ~TermHolds(PositiveTerm(t), r)
            ELSE TermHolds(t, r) <=> ~TermHolds(PositiveTerm(t), r)

\* a notbetween term met a row inside the range, one outside it and one
\* without an elevation
C8_Witness ==
    /\ SamplesServed
    /\ \E t \in NegativeTerms(call.params.contextual_filter) :
          /\ t.kind = "float"
          /\ \E r \in sample_context : r.elevation = NULL
          /\ \E r \in sample_context : r.elevation # NULL /\ TermHolds(t, r)

\* the samples with an abundance row for a taxon that passes the amplicon
\* and taxonomy filters
SamplesOfMatchingTaxa(params) ==
    {e.sample_id : e \in {a \in sample_otu :
        \E o \in otu :
            /\ o.id = a.otu_id
            /\ Passes(o, "amplicon_id", params.amplicon_filter)
            /\ \A k \in 1..Len(hierarchy) :
                  Passes(o, hierarchy[k], params.taxonomy_filter[k])}}

SubqueryBuilt(params) ==
    ~(params.amplicon_filter = None /\ params.taxonomy_filter[1] = None)

ContextualHolds(cf, r) == apply({r}, cf) # {}

\* C9: the sample-id search returns one row per sample that satisfies the
\* contextual filter and, when a taxonomy subquery is built, has an
\* abundance row for a matching taxon, in ascending id order
C9_SampleIdSearchReturnsMatchingIds ==
    (pc = "responded" /\ call.op = "matching_sample_ids_and_environment") =>
        /\ result.kind = "rows"
        /\ {result.rows[i].id : i \in 1..Len(result.rows)} =
               {r.id : r \in {c \in sample_context :
                   /\ ContextualHolds(call.params.contextual_filter, c)
                   /\ SubqueryBuilt(call.params) =>
                          c.id \in SamplesOfMatchingTaxa(call.params)}}
        /\ \A i, j \in 1..Len(result.rows) :
               i < j => result.rows[i].id < result.rows[j].id

\* C10: when the amplicon filter is unset and the kingdom slot is None,
\* matching_samples returns the samples it would return with the taxonomy
\* subquery built from the same filters and applied
C10_ShortcutPreservesResult ==
    (SamplesServed /\ ~SubqueryBuilt(call.params)) =>
        \A r \in sample_context :
            Kept(r) <=> /\ ContextualHolds(call.params.contextual_filter, r)
                        /\ r.id \in SamplesOfMatchingTaxa(call.params)

-----------------------------------------------------------------------------
(* Properties of the result cache *)

\* the request executed no query on the persistence layer
NoQueryExecuted(l) == \A i \in 1..Len(l) : l[i].ev # "query"

\* C11: when matching_samples is called a second time with the same params
\* and the tables unchanged, the second call returns the result of the first
\* and executes no query
C11_SecondCallIsCacheHit ==
    [][(pc = "responded" /\ pc' = "repeated" /\ call'.op = "matching_samples")
          => (result' = result /\ NoQueryExecuted(log'))]_vars

\* the term lists that hold the terms of `terms` in some order
Reordered(terms) ==
    {[i \in 1..Len(terms) |-> terms[p[i]]] : p \in AllOrders(1..Len(terms))}

\* C12: the cache key that a request computes is the key of every contextual
\* filter with the same mode, environment filter and terms, whatever the
\* order in which the terms were added
C12_FingerprintIgnoresTermOrder ==
    SamplesServed =>
        \A terms \in Reordered(call.params.contextual_filter.terms) :
            \A i \in 1..Len(log) :
                log[i].ev = "get" =>
                    log[i].key = hash_str("matching_samples",
                                          [call.params EXCEPT
                                              !.contextual_filter.terms = terms])

\* an import run has ended: its three loads have run
ImportEnded == loaded = {"metadata", "taxonomies", "abundance"}

\* the values the read computes from the present tables (_query_sample_otus()
\* computes none)
ComputedNow(op) == IF op = "get_taxonomy_options" THEN query_taxonomy_options ELSE {}

\* C13: once an import run has ended, with its abundance COPY done or
\* failed, a cached read that returns a value of the cache returns a value
\* computed from the tables as the import left them
C13_NoStaleReadAfterImport ==
    [][\A c \in Callers :
          (ImportEnded /\ callers[c].at = "out" /\ callers'[c].at = "done")
              => callers'[c].value \in ComputedNow(callers'[c].op)]_vars

Finished(c) == callers[c].at \in {"done", "raised"}

\* C14: when two threads have gone through the same cached read at once, on
\* unchanged tables, both have returned the same value and the cache holds
\* that value
C14_ConcurrentCallersAgree ==
    ((\A c \in Callers : Finished(c)) /\ callers[1].op = callers[2].op) =>
        /\ \A c \in Callers : callers[c].at = "done"
        /\ callers[1].value = callers[2].value
        /\ cache_get(cache_of(callers[1].op), edna_key[cache_of(callers[1].op)])
               = [none |-> FALSE, value |-> callers[1].value]

-----------------------------------------------------------------------------
(* Properties of the validation of a query *)

QueryViews == {"otu_search_sample_sites", "otu_search", "otu_export"}

\* a view has answered a query from which param_to_filters built filters
FiltersBuilt ==
    /\ pc = "responded"
    /\ call.op \in QueryViews
    /\ ~param_to_filters(call.otu_query).raised

\* C15: when param_to_filters reports at least one error for the query of
\* otu_search_sample_sites, otu_search or otu_export, no query is executed
\* on the session of a SampleQuery while the request is served
C15_NoSampleQueryAfterErrors ==
    (FiltersBuilt /\ param_to_filters(call.otu_query).v.errors # <<>>) =>
        \A i \in 1..Len(log) : ~(log[i].ev = "query" /\ log[i].session = "SampleQuery")

\* a JSON value that spells a number
Numeric(v) ==
    \/ v.t = "num"
    \/ v.t = "str" /\ v.s # <<>> /\ \A i \in 1..Len(v.s) : IsDigit(v.s[i])

KnownFields == {"id", "x", "elevation", "soil_type", "sample_type_id"}

\* the operand of an entry is not of the kind of its field: a bound of a
\* float field that is no number, a text operand that is no string, an
\* ontology value that is no integer, sample ids that are no list of integers
WrongKind(f) ==
    CASE f.field = "id" ->
             ~(f.is.t = "list" /\ \A i \in 1..Len(f.is.l) : Numeric(f.is.l[i]))
      [] f.field = "sample_type_id" -> ~Numeric(f.is)
      [] f.field \in {"x", "elevation"} -> ~(Numeric(f.from) /\ Numeric(f.to))
      [] f.field = "soil_type" -> f.contains.t # "str"
      [] OTHER -> FALSE

BadEntry(f) == f.field \notin KnownFields \/ WrongKind(f)

GoodEntry(f) == ~BadEntry(f)

\* C16: param_to_filters collects one error for each bad entry of the
\* filters (unknown field, or operand of the wrong kind), in the order of the
\* entries, and adds one term for each valid entry and none for a bad one
C16_OneErrorPerBadEntry ==
    FiltersBuilt =>
        LET filters == call.otu_query.contextual_filters.filters
            bad == SelectSeq(filters, BadEntry)
            good == SelectSeq(filters, GoodEntry)
            built == param_to_filters(call.otu_query).v
        IN /\ Len(built.errors) = Len(bad)
           /\ \A i \in 1..Len(bad) :
                  built.errors[i] = IF bad[i].field \in KnownFields
                                    THEN InvalidValue(bad[i].field) ELSE PleaseSelect
           /\ Len(built.params.contextual_filter.terms) = Len(good)
           /\ \A i \in 1..Len(good) :
                  built.params.contextual_filter.terms[i].field_name = good[i].field

\* a taxonomy vector that is not of the hierarchy's length, or that has a
\* selection in a slot after an empty slot
Malformed(v) ==
    \/ Len(v) # Len(RankNames)
    \/ \E i, j \in 1..Len(v) : i < j /\ v[i].t = "null" /\ v[j].t # "null"

\* C17: a request whose taxonomy vector is malformed ends in an error that
\* leaves the view, never in a normal response
C17_MalformedVectorIsFatal ==
    (pc = "responded" /\ call.op \in QueryViews
       /\ Malformed(call.otu_query.taxonomy_filters)) => result.kind = "error"

-----------------------------------------------------------------------------
(* Properties of the sessions *)

\* the session of event i is open: opened before i and not closed since
InScope(i) ==
    \E j \in 1..(i - 1) :
        /\ log[j] = Opened(log[i].session)
        /\ \A k \in (j + 1)..(i - 1) : log[k] # Closed(log[i].session)

\* C18: when a request has been served, every session it opened has been
\* closed, and every query of the request was executed on a session inside
\* the scope that opened it
C18_SessionsReleasedAndScoped ==
    pc = "responded" =>
        /\ \A i \in 1..Len(log) :
               log[i].ev = "open" =>
                   \E j \in (i + 1)..Len(log) : log[j] = Closed(log[i].session)
        /\ \A i \in 1..Len(log) : log[i].ev = "query" => InScope(i)

-----------------------------------------------------------------------------
(* Properties of the search for sample OTUs *)

Answered(op) == pc \in {"responded", "repeated"} /\ call.op = op

\* C19: has_matching_sample_otus(kingdom_id) is true exactly when the query
\* of matching_sample_otus(kingdom_id) has at least one row, on the first
\* call and on a repeated call
C19_HasMatchingIffSomeRow ==
    Answered("has_matching_sample_otus") =>
        /\ result.kind = "boolean"
        /\ result.value = (matching_sample_otus_rows(call.params, call.kingdom_id) # {})

\* a repeated call for a kingdom that has matching rows, another kingdom
\* having matching rows as well
C19_Witness ==
    /\ pc = "repeated"
    /\ call.op = "has_matching_sample_otus"
    /\ result.value = TRUE
    /\ call.kingdom_id # NULL
    /\ \E t \in matching_sample_otus_rows(call.params, NULL) :
           t[1].kingdom_id # call.kingdom_id

\* sample r satisfies the contextual filter cf: its environment constraint,
\* and its terms combined by the mode when it has terms
FilterHolds(cf, r) ==
    /\ EnvironmentHolds(cf, r)
    /\ \/ cf.terms = <<>>
       \/ cf.mode = "or" /\ \E i \in 1..Len(cf.terms) : TermHolds(cf.terms[i], r)
       \/ cf.mode = "and" /\ \A i \in 1..Len(cf.terms) : TermHolds(cf.terms[i], r)

\* the (taxon, edge, sample) triples that the claim describes
QualifyingTriples(params, kingdom_id) ==
    {t \in otu \X sample_otu \X sample_context :
        /\ t[2].otu_id = t[1].id
        /\ t[2].sample_id = t[3].id
        /\ Passes(t[1], "amplicon_id", params.amplicon_filter)
        /\ \A k \in 1..Len(RankNames) :
               ~EmptySlot(params.taxonomy_filter[k]) =>
                   Passes(t[1], RankNames[k] \o "_id", params.taxonomy_filter[k])
        /\ FilterHolds(params.contextual_filter, t[3])
        /\ (kingdom_id # NULL => t[1].kingdom_id = kingdom_id)}

-----------------------------------------------------------------------------
(* Further properties of TaxonomyOptions.possibilities *)

AllKingdoms == {<<o.id, o.value>> : o \in ontology["kingdom_id"]}

\* C21: when the target is kingdom and there is no amplicon constraint (no
\* amplicon filter, or one whose value is null), the possibilities are all
\* the rows of the kingdom ontology table
C21_KingdomTargetListsAllKingdoms ==
    (PossibilitiesServed /\ result.kind = "options" /\ result.target = "kingdom"
       /\ EmptySlot(call.amplicon)) =>
        Range(result.possibilities) = AllKingdoms

\* the amplicon filter constrains, and no taxon passes it
MatchesNoTaxon(amplicon) ==
    ~EmptySlot(amplicon) /\ \A r \in otu : ~Passes(r, "amplicon_id", amplicon)

\* C22: for an amplicon filter that no taxon passes, possibilities returns
\* the target kingdom with no possibilities, and no error, whatever the state
C22_UnmatchedAmpliconGivesEmptyKingdom ==
    (PossibilitiesServed /\ MatchesNoTaxon(call.amplicon)) =>
        /\ result.kind = "options"
        /\ result.target = "kingdom"
        /\ result.possibilities = <<>>

\* taxa are stored and a kingdom is selected, under an amplicon filter that
\* none of the taxa passes
C22_Witness ==
    /\ PossibilitiesServed /\ MatchesNoTaxon(call.amplicon)
    /\ otu # {}
    /\ ~EmptySlot(call.state[1])
    /\ \E r \in otu : Passes(r, "kingdom_id", call.state[1])

\* C23: possibilities called once more with the same amplicon and state over
\* the same data returns what it returned before, and leaves the state
\* vector and the stored data as they were
C23_PossibilitiesRepeatable ==
    [][(pc = "responded" /\ pc' = "repeated" /\ call'.op = "possibilities")
          => (result' = result /\ call' = call /\ UNCHANGED <<tables, cache>>)]_vars

\* the state with every slot deeper than rank t replaced by the slot `fill`
Refilled(state, t, fill) ==
    [k \in 1..Len(state) |-> IF k <= t + 1 THEN state[k] ELSE fill]

\* the index of the first empty slot, or the number of ranks when no slot is
\* empty
FirstEmpty(state) ==
    IF EmptySlots(state) = {} THEN Len(RankNames) ELSE Least(EmptySlots(state))

\* C30: the target is not deeper than the first empty slot; it is shallower
\* only when the slot at the target is filled and no taxon satisfies the
\* amplicon filter and the slots up to the target; and the result is the
\* same whatever the slots deeper than the target hold
C30_TargetBoundedAndDeeperSlotsIgnored ==
    (PossibilitiesServed /\ result.kind = "options") =>
        LET t == RankIndex(result.target)
        IN /\ t <= FirstEmpty(call.state)
           /\ t < FirstEmpty(call.state) =>
                  /\ ~EmptySlot(call.state[t + 1])
                  /\ TaxaUnder(call.amplicon, call.state, t + 1) = {}
           /\ \A fill \in SlotOptions :
                  result \in possibilities_results(call.amplicon,
                                                   Refilled(call.state, t, fill))

\* a filled slot that no taxon matches is the target, before the first empty
\* slot, with a selection in the slot after it and taxa under the slots
\* before it
C30_Witness ==
    /\ PossibilitiesServed /\ result.kind = "options"
    /\ RankIndex(result.target) \in 1..5
    /\ RankIndex(result.target) < FirstEmpty(call.state)
    /\ ~EmptySlot(call.state[RankIndex(result.target) + 2])
    /\ result.possibilities # <<>>

-----------------------------------------------------------------------------
(* Properties of the normalised abundances *)

\* the sum of the rational numbers <<n, d>> of the rows S, as <<n, d>>
RECURSIVE SumOfProportions(_)
SumOfProportions(S) ==
    IF S = {} THEN <<0, 1>>
    ELSE LET e == CHOOSE e \in S : TRUE
             rest == SumOfProportions(S \ {e})
         IN <<e.proportional_abundance[1] * rest[2] + rest[1] * e.proportional_abundance[2],
              e.proportional_abundance[2] * rest[2]>>

\* _normalize_abundances has run on the rows now stored
Normalized ==
    \A e \in sample_otu :
        (\E a \in sample_otu : a.sample_id = e.sample_id /\ a.count >= One)
            => e.proportional_abundance # <<0, 1>>

CountedEdges(sample_id) == {e \in sample_otu : e.sample_id = sample_id /\ e.count >= One}

\* C24: after _normalize_abundances, for every sample with an edge of
\* count >= 1, the proportional abundances of its edges of count >= 1 sum
\* to 1
C24_ProportionsSumToOne ==
    [][\A e \in sample_otu' :
          (normalize_abundances /\ e.count >= One) =>
              LET total == SumOfProportions({a \in sample_otu' :
                               a.sample_id = e.sample_id /\ a.count >= One})
              IN total[1] = total[2]]_vars

\* normalised rows of a sample with two edges of count >= 1, an edge of
\* count < 1 being stored as well
C24_Witness ==
    /\ Normalized
    /\ \E e \in sample_otu : Cardinality(CountedEdges(e.sample_id)) >= 2
    /\ \E e \in sample_otu : e.count < One

\* C25: after _normalize_abundances, every edge of count < 1 has a
\* proportional abundance equal to its count
C25_SmallCountsKeptAsProportion ==
    [][\A e \in sample_otu' :
          (normalize_abundances /\ e.count < One) =>
              e.proportional_abundance[1] * One = e.count * e.proportional_abundance[2]]_vars

-----------------------------------------------------------------------------
(* Properties of the construction of terms *)

\* the operands are of the kind of the term class
RightKind(cls, operands) ==
    CASE cls = "ContextualFilterTermFloat" ->
             operands[1].type = "float" /\ operands[2].type = "float"
      [] cls = "ContextualFilterTermDate" ->
             operands[1].type = "date" /\ operands[2].type = "date"
      [] cls = "ContextualFilterTermString" -> operands[1].type = "str"
      [] cls = "ContextualFilterTermOntology" -> operands[1].type = "int"
      [] cls = "ContextualFilterTermSampleID" ->
             /\ operands[1].type = "list"
             /\ \A i \in 1..Len(operands[1].items) : operands[1].items[i].type = "int"

\* the operands that a term holds are of the kind of the term
WellTyped(term) ==
    CASE term.kind = "float" -> term.val_from.type = "float" /\ term.val_to.type = "float"
      [] term.kind = "date" -> term.val_from.type = "date" /\ term.val_to.type = "date"
      [] term.kind = "string" -> term.val_contains.type = "str"
      [] term.kind = "ontology" -> term.val_is.type = "int"
      [] term.kind = "sample_id" ->
             /\ term.val_is_in.type = "list"
             /\ \A i \in 1..Len(term.val_is_in.items) :
                    term.val_is_in.items[i].type = "int"

\* C26: a term constructor called on an operand that is not of its kind
\* raises and adds nothing, and every term that a ContextualFilter holds has
\* operands of its kind
C26_WrongOperandRaisesAtConstruction ==
    (result.kind = "filter") =>
        /\ \A i \in 1..Len(result.terms) : WellTyped(result.terms[i])
        /\ (call.op = "add_term" /\ ~RightKind(call.cls, call.operands)) =>
               result.exc = "AssertionError"
        /\ (call.op = "add_term" /\ RightKind(call.cls, call.operands)) =>
               (result.exc = "" /\ result.terms # <<>>)

\* a filter that holds a term, the construction of another term on a list
\* with an item that is no int having raised
C26_Witness ==
    /\ result.kind = "filter"
    /\ result.terms # <<>>
    /\ call.op = "add_term"
    /\ call.cls = "ContextualFilterTermSampleID"
    /\ call.operands[1].type = "list"
    /\ result.exc = "AssertionError"

-----------------------------------------------------------------------------
(* Properties of EdnaSampleOTUQuery *)

\* query_sample_otus has answered an intersection (use_union is not True)
\* with a list of rows
IntersectionAnswered ==
    /\ pc = "responded" /\ call.op = "query_sample_otus"
    /\ ~is_True(call.use_union)
    /\ result.exc = ""
    /\ call.otu_ids.type = "list" /\ call.sample_contextual_ids.type = "list"

\* C27: when use_union is not True, every row that _query_sample_otus
\* returns has its otu_id among otu_ids and its sample_id among
\* sample_contextual_ids, so that an empty list for either yields no row
C27_IntersectionRowsInBothLists ==
    IntersectionAnswered =>
        \A i \in 1..Len(result.rows) :
            /\ in_(result.rows[i][1], call.otu_ids.items) = "t"
            /\ in_(result.rows[i][2], call.sample_contextual_ids.items) = "t"

-----------------------------------------------------------------------------
(* Properties of a cached read that overlaps an import *)

\* the thread is not between its cache.get and its cache.set
ReaderAtRest == callers[1].at \in {"out", "done", "raised"}

\* the entry of the cache of the read is absent (or an empty list, which a
\* read takes for a miss), or holds a value computed from the present tables
AbsentOrFresh(op) ==
    LET got == cache_get(cache_of(op), edna_key[cache_of(op)])
    IN falsy(got) \/ got.value \in ComputedNow(op)

\* C28: however a cached read (get, miss, query, set) interleaves with an
\* import run (the data replaced, then the key deleted), once both are over
\* the cache entry is absent or equals the value computed from the imported
\* data: a reader that queried the old data does not leave its result
\* behind the delete of the import
C28_NoStaleEntryAfterOverlappingImport ==
    (ImportEnded /\ ReaderAtRest) => \A op \in cached_reads : AbsentOrFresh(op)

-----------------------------------------------------------------------------
(* Properties of SampleQuery.matching_sample_headers *)

\* C29: whatever the amplicon, taxonomy and contextual filters of the
\* SampleQuery are, matching_sample_headers returns one row for each sample
\* of the store, the same rows for the same required headers and sort
\* arguments
C29_HeadersOfEverySampleUnderAnyFilter ==
    (pc = "responded" /\ call.op = "matching_sample_headers") =>
        /\ result.kind = "rows"
        /\ Len(result.rows) = Cardinality(sample_context)
        /\ {result.rows[i][1] : i \in 1..Len(result.rows)} = {r.id : r \in sample_context}

=============================================================================
